---- MODULE Spec2Model ----
(***************************************************************************)
(* A model of the nexus notification service: the webhook registry and the *)
(* webhook delivery engine (src/src/services/webhook.service.ts), the      *)
(* preferences service (same file, second half) and the notification      *)
(* service (src/unnamed/part_000).                                         *)
(*                                                                         *)
(* The database is better-sqlite3: every statement runs synchronously, so  *)
(* a handler is atomic up to its next `await`.  The only awaits are in     *)
(* attemptDelivery: the fetch and the backoff timer.                       *)
(*                                                                         *)
(* One invocation of deliver is modelled (CallIds), two in ConcurrentSpec; *)
(* the registry changes under it.  Ids from nanoid() are row numbers.  Of  *)
(* datetime('now') columns, created_at of notifications and sent_emails is *)
(* the clock in whole seconds and last_attempt_at is NULL or set; the      *)
(* others are not modelled.  NotificationService.send does not call the    *)
(* preferences, email or webhook services, so its table is independent of  *)
(* theirs, and the subsystems are run by specifications of their own:      *)
(*   Spec          the webhook registry and the delivery engine            *)
(*   FairSpec      the engine under a fair event loop                      *)
(*   SendSpec      send next to the preference updates                     *)
(*   PrefSpec      the preferences service on a table that can be corrupt  *)
(*   EffectSpec    send, its storage faults, and the email sink            *)
(*   DispatchSpec  send between the awaits of a delivery                   *)
(*   ListSpec      send and the paginated listing                          *)
(*   OrderSpec     send, the clock and the listing                         *)
(*   ReadSpec      send and the read flags                                 *)
(*   RegistrySpec  the webhook registry, scoped by owner                   *)
(*   HistorySpec   the registry next to the delivery rows of its webhooks  *)
(*   WebhookApiSpec the webhook routes: identity, schema, registry         *)
(*   ValidationSpec the send and preferences routes and their schemas      *)
(*   ApiSpec        every route behind its authentication middleware       *)
(*   ConcurrentSpec two invocations of deliver on a filled registry        *)
(*   IsolationSpec  the notification store used by two users               *)
(*   SnapshotSpec   a delivery whose webhooks are reconfigured             *)
(*   IntegritySpec  a delivery next to updates and deletes                 *)
(***************************************************************************)
EXTENDS Integers, Sequences, FiniteSets, TLC

(* ------------------------------ bounds -------------------------------- *)
MaxWebhooks == 2
MaxUpdates == 1
MaxNotifications == 2
MaxEmails == 1
MaxClock == 1
MaxRecords == 5
\* records in the table whose read flags are followed
MaxReadRecords == 3

(* ---------------------------- input domains --------------------------- *)
\* a nullable column or field holds NULL or Some(value)
NULL == <<>>
Some(x) == <<x>>

Users == {"u1", "u2"}

NotificationTypes ==
    {"task_assigned", "task_status_changed", "comment_added",
     "project_invited", "task_due_soon"}

Secrets == {"s1", "s2"}

\* the secret a create request carries; update requests carry the other one
CreateSecrets == {"s1"}

Urls == {"https://a.example/hook"}

\* event lists a create request carries (createWebhookSchema: non-empty)
EventInputs == {<<"task_assigned">>, <<"comment_added", "task_assigned">>}

\* the user deliver is called for (the other user's webhooks are then the
\* webhooks of another owner)
DeliverUsers == {"u1"}

\* event types passed to deliver
DeliverEvents == {"task_assigned", "comment_added"}

\* payload objects passed to deliver
Payloads == {[title |-> "T1", body |-> "B1"]}

\* HTTP status codes an endpoint answers with
StatusCodes == {200, 500}

\* update requests (UpdateWebhookRequest): `has` names the fields that are
\* present (not undefined); the value of an absent field is not read
UpdateInputs ==
    {[has |-> {"active"}, url |-> "", secret |-> "", events |-> <<>>, active |-> FALSE],
     [has |-> {"secret"}, url |-> "", secret |-> "s2", events |-> <<>>, active |-> FALSE]}

\* the order in which the engine returns rows that ORDER BY leaves tied: SQL
\* does not define it
TieOrders == {"rowid asc", "rowid desc"}

(* ------------------------------- state -------------------------------- *)
VARIABLES
    webhooks,       \* table webhooks, rows in insertion (rowid) order
    webhookIds,     \* number of webhook ids nanoid() has handed out
    updates,        \* number of update calls made so far
    deliveries,     \* table webhook_deliveries; row k has id k
    calls,          \* the deliver invocations, numbered in the order they are made
    trace,          \* per delivery row: what the engine did for it, in order
    notifications,  \* table notifications, rows in insertion order; row k has id k
    preferences,    \* table notification_preferences: per user, NULL or Some(row)
    sent_emails,    \* table sent_emails, rows in insertion order; row k has id k
    clock,          \* datetime('now'): the wall clock, in whole seconds
    response        \* what the last call of a synchronous service method returned

\* the tables the notification and preferences services work on
storeVars == <<notifications, preferences, sent_emails, clock, response>>

\* the tables and invocations of the webhook service
engineVars == <<webhooks, webhookIds, updates, deliveries, calls, trace>>

vars == <<webhooks, webhookIds, updates, deliveries, calls, trace,
          notifications, preferences, sent_emails, clock, response>>

\* the deliver invocations modelled
CallIds == {1}

(* ------------------------------ helpers ------------------------------- *)
includes(seq, x) == \E k \in 1..Len(seq) : seq[k] = x

\* JSON.stringify of an array of strings, as its token sequence
JSONstringifyArray(arr) ==
    IF Len(arr) = 0 THEN <<"[", "]">>
    ELSE [k \in 1..(2 * Len(arr) + 1) |->
            IF k = 1 THEN "["
            ELSE IF k = 2 * Len(arr) + 1 THEN "]"
            ELSE IF k % 2 = 0 THEN arr[k \div 2] ELSE ","]

\* JSON.parse of such a token sequence
JSONparseArray(txt) == [k \in 1..((Len(txt) - 1) \div 2) |-> txt[2 * k]]

\* JSON.stringify of a payload object, as its token sequence
JSONstringify(obj) ==
    <<"{", "title", ":", obj.title, ",", "body", ":", obj.body, "}">>

rowToWebhook(row) ==
    [id |-> row.id, userId |-> row.user_id, url |-> row.url,
     secret |-> row.secret, events |-> JSONparseArray(row.events),
     active |-> (row.active = 1)]

\* crypto.createHmac('sha256', secret).update(payload).digest('hex'):
\* an ideal keyed digest, determined by exactly (key, message)
signPayload(payload, secret) ==
    [alg |-> "hmac-sha256", key |-> secret, msg |-> payload]

RETRY_DELAYS == <<1000, 5000, 15000>>

maxAttempts == 3

\* mutant: the delay table indexed by the attempt number, not by attempt - 1
retryDelay_byAttempt(attempt) == RETRY_DELAYS[attempt + 1]

\* the delay awaited before the 0-based attempt number `attempt` (> 0)
retryDelay(attempt) == RETRY_DELAYS[(attempt - 1) + 1]

\* Response.ok
responseOk(status) == status >= 200 /\ status <= 299

\* mutant: a non-2xx response never marks the row failed
statusOnResponse_neverFailed(status, attempt) ==
    IF responseOk(status) THEN "delivered" ELSE "pending"

\* the status written after a response (attempt is 0-based)
statusOnResponse(status, attempt) ==
    IF responseOk(status) THEN "delivered"
    ELSE IF attempt + 1 >= maxAttempts THEN "failed" ELSE "pending"

\* mutant: the catch block compares with > instead of >=
statusOnError_offByOne(attempt) ==
    IF attempt + 1 > maxAttempts THEN "failed" ELSE "pending"

\* the status written in the catch block
statusOnError(attempt) ==
    IF attempt + 1 >= maxAttempts THEN "failed" ELSE "pending"

\* SELECT * FROM webhooks WHERE user_id = ? AND active = 1
selectActiveWebhooks(tbl, userId) ==
    SelectSeq(tbl, LAMBDA r : r.user_id = userId /\ r.active = 1)

\* SELECT * FROM webhooks WHERE id = ? AND user_id = ?
\* mutant: the owner is not part of the selection
rowIndex_anyOwner(tbl, webhookId, userId) ==
    IF \E k \in 1..Len(tbl) : tbl[k].id = webhookId
    THEN CHOOSE k \in 1..Len(tbl) : tbl[k].id = webhookId
    ELSE 0

\* the position of the row WHERE id = ? AND user_id = ? selects, 0 if none
rowIndex(tbl, webhookId, userId) ==
    IF \E k \in 1..Len(tbl) : tbl[k].id = webhookId /\ tbl[k].user_id = userId
    THEN CHOOSE k \in 1..Len(tbl) : tbl[k].id = webhookId /\ tbl[k].user_id = userId
    ELSE 0

\* mutant: the subscription check is missing
subscribed_noCheck(row, eventType) == TRUE

\* `if (!webhook.events.includes(eventType)) continue`
subscribed(row, eventType) == includes(rowToWebhook(row).events, eventType)

\* the next row of the snapshot, from position i on, that the loop does not skip
nextSelected(rows, eventType, i) ==
    IF \E k \in i..Len(rows) : subscribed(rows[k], eventType)
    THEN CHOOSE k \in i..Len(rows) :
            /\ subscribed(rows[k], eventType)
            /\ \A m \in i..(k - 1) : ~subscribed(rows[m], eventType)
    ELSE 0

(* --------------------------- trace events ----------------------------- *)
PostEvent(n, url, signature, body) ==
    [type |-> "post", n |-> n, url |-> url, signature |-> signature,
     body |-> body, outcome |-> NULL, ms |-> 0]

\* what the endpoint did to an attempt: answered 2xx, or failed it (any other
\* status, a transport error, the timeout)
answered2xx(status) == IF status \in 200..299 THEN "2xx" ELSE "fail"

RecordedEvent(n, outcome) ==
    [type |-> "recorded", n |-> n, url |-> NULL, signature |-> NULL,
     body |-> NULL, outcome |-> outcome, ms |-> 0]

WaitEvent(n, ms) ==
    [type |-> "wait", n |-> n, url |-> NULL, signature |-> NULL,
     body |-> NULL, outcome |-> NULL, ms |-> ms]

(* ------------------------------- Init --------------------------------- *)
\* the arguments and locals of an invocation that is not made yet are blanks
\* of their type
NoPayload == [title |-> "", body |-> ""]

NoWebhook ==
    [id |-> 0, userId |-> "", url |-> "", secret |-> "", events |-> <<>>,
     active |-> FALSE]

IdleCall ==
    [pc |-> "idle", eventType |-> "", payload |-> NoPayload, userId |-> "",
     rows |-> <<>>, i |-> 0, deliveryId |-> 0, webhook |-> NoWebhook,
     payloadStr |-> <<>>, attempt |-> 0, result |-> "none", made |-> <<>>]

NoResponse == [op |-> "none"]

Init ==
    /\ webhooks = <<>>
    /\ webhookIds = 0
    /\ updates = 0
    /\ deliveries = <<>>
    /\ calls = [c \in CallIds |-> IdleCall]
    /\ trace = <<>>
    /\ notifications = <<>>
    /\ preferences = [u \in Users |-> NULL]
    /\ sent_emails = <<>>
    /\ clock = 0
    /\ response = NoResponse

(* ------------------------- webhook registry --------------------------- *)
\* WebhookService.create
create(userId, req) ==
    /\ webhookIds < MaxWebhooks
    /\ webhookIds' = webhookIds + 1
    /\ webhooks' = Append(webhooks,
            [id |-> webhookIds + 1, user_id |-> userId, url |-> req.url,
             secret |-> req.secret, events |-> JSONstringifyArray(req.events),
             active |-> 1])
    /\ UNCHANGED <<updates, deliveries, calls, trace, storeVars>>

\* the row after UPDATE webhooks SET ... for the fields present in req
updatedRow(row, req) ==
    [row EXCEPT
        !.url = IF "url" \in req.has THEN req.url ELSE @,
        !.secret = IF "secret" \in req.has THEN req.secret ELSE @,
        !.events = IF "events" \in req.has THEN JSONstringifyArray(req.events) ELSE @,
        !.active = IF "active" \in req.has THEN (IF req.active THEN 1 ELSE 0) ELSE @]

\* WebhookService.update as the deliveries see it: the rows it writes (its
\* result is in updateReturns)
update(webhookId, userId, req) ==
    /\ updates < MaxUpdates
    /\ updates' = updates + 1
    /\ LET k == rowIndex(webhooks, webhookId, userId) IN
        IF k = 0 THEN webhooks' = webhooks
        ELSE webhooks' = [webhooks EXCEPT ![k] = updatedRow(@, req)]
    /\ UNCHANGED <<webhookIds, deliveries, calls, trace, storeVars>>

\* update requests of the registry: no field, the two of UpdateInputs, and
\* url with events
RegistryUpdateInputs ==
    UpdateInputs \cup
    {[has |-> {}, url |-> "", secret |-> "", events |-> <<>>, active |-> FALSE],
     [has |-> {"url", "events"}, url |-> "https://b.example/hook", secret |-> "",
      events |-> <<"comment_added">>, active |-> FALSE]}

\* what getById returns: SELECT * FROM webhooks WHERE id = ? AND user_id = ?
getByIdResult(tbl, webhookId, userId) ==
    IF rowIndex(tbl, webhookId, userId) = 0 THEN NULL
    ELSE Some(rowToWebhook(tbl[rowIndex(tbl, webhookId, userId)]))

\* WebhookService.getById
getById(webhookId, userId) ==
    /\ response' = [op |-> "getById", webhookId |-> webhookId, userId |-> userId,
                    result |-> getByIdResult(webhooks, webhookId, userId)]
    /\ UNCHANGED <<notifications, preferences, sent_emails, clock, engineVars>>

\* mutant: every field of the request is written, present or not
updateReturns_writesAbsent(webhookId, userId, req) ==
    /\ updates < MaxUpdates
    /\ updates' = updates + 1
    /\ LET k == rowIndex(webhooks, webhookId, userId) IN
        IF k = 0 THEN webhooks' = webhooks
        ELSE webhooks' = [webhooks EXCEPT ![k] =
                updatedRow(@, [req EXCEPT !.has = {"url", "secret", "events", "active"}])]
    /\ response' = [op |-> "update", webhookId |-> webhookId, userId |-> userId,
                    req |-> req, result |-> getByIdResult(webhooks', webhookId, userId)]
    /\ UNCHANGED <<webhookIds, deliveries, calls, trace,
                   notifications, preferences, sent_emails, clock>>

\* WebhookService.update with its result, `return this.getById(webhookId,
\* userId)`, kept by the caller
updateReturns(webhookId, userId, req) ==
    /\ updates < MaxUpdates
    /\ updates' = updates + 1
    /\ LET k == rowIndex(webhooks, webhookId, userId) IN
        IF k = 0 THEN webhooks' = webhooks
        ELSE webhooks' = [webhooks EXCEPT ![k] = updatedRow(@, req)]
    /\ response' = [op |-> "update", webhookId |-> webhookId, userId |-> userId,
                    req |-> req, result |-> getByIdResult(webhooks', webhookId, userId)]
    /\ UNCHANGED <<webhookIds, deliveries, calls, trace,
                   notifications, preferences, sent_emails, clock>>

\* the table without the row at position k
withoutRow(tbl, k) ==
    [m \in 1..(Len(tbl) - 1) |-> IF m < k THEN tbl[m] ELSE tbl[m + 1]]

\* mutant: the table webhook_deliveries has no foreign key on webhook_id
delete_noForeignKey(webhookId, userId) ==
    LET k == rowIndex(webhooks, webhookId, userId)
    IN /\ webhooks' = IF k = 0 THEN webhooks ELSE withoutRow(webhooks, k)
       /\ response' = [op |-> "delete", webhookId |-> webhookId, userId |-> userId,
                       threw |-> FALSE, deleted |-> (k # 0)]
       /\ UNCHANGED <<webhookIds, updates, deliveries, calls, trace,
                      notifications, preferences, sent_emails, clock>>

\* WebhookService.delete: DELETE FROM webhooks WHERE id = ? AND user_id = ?,
\* returning result.changes > 0.  With foreign_keys = ON and no ON DELETE
\* action on webhook_deliveries.webhook_id, the statement throws when a
\* delivery row references the webhook, and the row stays
delete(webhookId, userId) ==
    LET k == rowIndex(webhooks, webhookId, userId)
        throws == k # 0 /\ \E d \in 1..Len(deliveries) :
                                deliveries[d].webhook_id = webhookId
    IN /\ webhooks' = IF k = 0 \/ throws THEN webhooks ELSE withoutRow(webhooks, k)
       /\ response' = [op |-> "delete", webhookId |-> webhookId, userId |-> userId,
                       threw |-> throws, deleted |-> (k # 0 /\ ~throws)]
       /\ UNCHANGED <<webhookIds, updates, deliveries, calls, trace,
                      notifications, preferences, sent_emails, clock>>

\* what list returns: SELECT * FROM webhooks WHERE user_id = ? ORDER BY
\* created_at DESC.  created_at has a resolution of a second and is not
\* modelled: the rows come in the order of creation or in its reverse
webhookListResult(tbl, userId, ties) ==
    LET rows == SelectSeq(tbl, LAMBDA r : r.user_id = userId)
    IN [k \in 1..Len(rows) |->
            rowToWebhook(rows[IF ties = "rowid asc" THEN k ELSE Len(rows) + 1 - k])]

\* WebhookService.list
webhookList(userId, ties) ==
    /\ response' = [op |-> "webhookList", userId |-> userId,
                    result |-> webhookListResult(webhooks, userId, ties)]
    /\ UNCHANGED <<notifications, preferences, sent_emails, clock, engineVars>>

(* ------------------------ webhook delivery engine --------------------- *)
\* the row deliver inserts for a selected webhook
newDelivery(deliveryId, webhookId, eventType, payloadStr) ==
    [id |-> deliveryId, webhook_id |-> webhookId, event_type |-> eventType,
     payload |-> payloadStr, status |-> "pending", response_code |-> NULL,
     attempts |-> 0, last_attempt_at |-> NULL]

\* mutant: the signature is computed over the secret, keyed with the payload
request_swappedKey(payload, webhook, attempt) ==
    PostEvent(attempt + 1, webhook.url, signPayload(webhook.secret, payload), payload)

\* the POST attemptDelivery issues for the 0-based attempt number `attempt`
request(payload, webhook, attempt) ==
    PostEvent(attempt + 1, webhook.url, signPayload(payload, webhook.secret), payload)

\* mutant: the 0-based loop counter is written as the attempt count
recordResponse_zeroBased(dels, deliveryId, status, attempt) ==
    [dels EXCEPT ![deliveryId] =
        [@ EXCEPT !.attempts = attempt,
                  !.response_code = Some(status),
                  !.last_attempt_at = Some("now"),
                  !.status = statusOnResponse(status, attempt)]]

\* UPDATE webhook_deliveries SET ... WHERE id = ? after a response
recordResponse(dels, deliveryId, status, attempt) ==
    [dels EXCEPT ![deliveryId] =
        [@ EXCEPT !.attempts = attempt + 1,
                  !.response_code = Some(status),
                  !.last_attempt_at = Some("now"),
                  !.status = statusOnResponse(status, attempt)]]

\* mutant: the catch block writes the status only
recordError_statusOnly(dels, deliveryId, attempt) ==
    [dels EXCEPT ![deliveryId] =
        [@ EXCEPT !.status = statusOnError(attempt)]]

\* UPDATE webhook_deliveries SET ... WHERE id = ? in the catch block
recordError(dels, deliveryId, attempt) ==
    [dels EXCEPT ![deliveryId] =
        [@ EXCEPT !.attempts = attempt + 1,
                  !.last_attempt_at = Some("now"),
                  !.status = statusOnError(attempt)]]

\* mutant: the catch block rethrows
errorSurfaces_rethrow == TRUE

\* how the promise of deliver settles when a fetch throws: the catch block
\* swallows the error, so the call goes on
errorSurfaces == FALSE

\* webhook_id REFERENCES webhooks(id), with foreign_keys = ON: a delivery row
\* can be inserted only for a webhook in the table
referenced(tbl, webhookId) == \E k \in 1..Len(tbl) : tbl[k].id = webhookId

\* the for loop of deliver, entered or resumed at snapshot position `from`,
\* run up to the next await (the first fetch of the next selected webhook)
\* or to the return; cl, dels and tr are the call, the table and the trace
\* as the code before it left them.  The INSERT of a delivery row throws
\* when the webhook of the snapshot is no longer in the table, and the loop
\* has no try/catch around it
resumeLoop(c, cl, from, dels, tr) ==
    LET j == nextSelected(cl.rows, cl.eventType, from) IN
    IF j = 0
    THEN /\ calls' = [calls EXCEPT ![c] =
                [cl EXCEPT !.pc = "done", !.result = "resolved", !.i = Len(cl.rows) + 1]]
         /\ deliveries' = dels
         /\ trace' = tr
    ELSE LET webhook == rowToWebhook(cl.rows[j])
             deliveryId == Len(dels) + 1
             payloadStr == JSONstringify(cl.payload)
         IN IF referenced(webhooks, webhook.id)
            THEN /\ deliveries' = Append(dels,
                        newDelivery(deliveryId, webhook.id, cl.eventType, payloadStr))
                 /\ trace' = Append(tr, <<request(payloadStr, webhook, 0)>>)
                 /\ calls' = [calls EXCEPT ![c] =
                        [cl EXCEPT !.pc = "fetch", !.i = j, !.deliveryId = deliveryId,
                                   !.webhook = webhook, !.payloadStr = payloadStr,
                                   !.attempt = 0, !.made = Append(@, deliveryId)]]
            ELSE /\ deliveries' = dels
                 /\ trace' = tr
                 /\ calls' = [calls EXCEPT ![c] =
                        [cl EXCEPT !.pc = "done", !.result = "rejected", !.i = j]]

\* the delivery rows a call has still to insert: the selected webhooks of its
\* snapshot after position i
rowsToCome(cl) ==
    Cardinality({k \in (cl.i + 1)..Len(cl.rows) : subscribed(cl.rows[k], cl.eventType)})

\* WebhookService.deliver, from the call to its first await or its return
deliver(c, eventType, payload, userId) ==
    /\ calls[c].pc = "idle"
    /\ \A b \in 1..(c - 1) : calls[b].pc # "idle"
    /\ LET cl == [calls[c] EXCEPT !.eventType = eventType, !.payload = payload,
                                  !.userId = userId,
                                  !.rows = selectActiveWebhooks(webhooks, userId)]
       IN resumeLoop(c, cl, 1, deliveries, trace)
    /\ UNCHANGED <<webhooks, webhookIds, updates, storeVars>>

\* mutant: `if (response.ok) return` is missing
afterAttempt_noReturnOnOk(c, cl, succeeded, dels, tr) ==
    IF cl.attempt + 1 >= maxAttempts
    THEN resumeLoop(c, cl, cl.i + 1, dels, tr)
    ELSE /\ calls' = [calls EXCEPT ![c] =
                [cl EXCEPT !.pc = "wait", !.attempt = cl.attempt + 1]]
         /\ deliveries' = dels
         /\ trace' = [tr EXCEPT ![cl.deliveryId] =
                Append(@, WaitEvent(cl.attempt + 2, retryDelay(cl.attempt + 1)))]

\* attemptDelivery after the outcome of attempt number cl.attempt is written
\* (dels, tr): return on success or after the last attempt, else start the
\* backoff timer
afterAttempt(c, cl, succeeded, dels, tr) ==
    IF succeeded \/ cl.attempt + 1 >= maxAttempts
    THEN resumeLoop(c, cl, cl.i + 1, dels, tr)
    ELSE /\ calls' = [calls EXCEPT ![c] =
                [cl EXCEPT !.pc = "wait", !.attempt = cl.attempt + 1]]
         /\ deliveries' = dels
         /\ trace' = [tr EXCEPT ![cl.deliveryId] =
                Append(@, WaitEvent(cl.attempt + 2, retryDelay(cl.attempt + 1)))]

\* mutant: the UPDATE after a response is WHERE status = 'pending', not by id
fetchResponds_everyPending(c, status) ==
    /\ calls[c].pc = "fetch"
    /\ LET cl == calls[c]
           dels == [d \in 1..Len(deliveries) |->
                    IF deliveries[d].status = "pending"
                    THEN recordResponse(deliveries, d, status, cl.attempt)[d]
                    ELSE deliveries[d]]
           tr == [trace EXCEPT ![cl.deliveryId] =
                    Append(@, RecordedEvent(cl.attempt + 1, answered2xx(status)))]
       IN afterAttempt(c, cl, responseOk(status), dels, tr)
    /\ UNCHANGED <<webhooks, webhookIds, updates, storeVars>>

\* the awaited fetch resolves with a response of the given status
fetchResponds(c, status) ==
    /\ calls[c].pc = "fetch"
    /\ LET cl == calls[c]
           dels == recordResponse(deliveries, cl.deliveryId, status, cl.attempt)
           tr == [trace EXCEPT ![cl.deliveryId] =
                    Append(@, RecordedEvent(cl.attempt + 1, answered2xx(status)))]
       IN afterAttempt(c, cl, responseOk(status), dels, tr)
    /\ UNCHANGED <<webhooks, webhookIds, updates, storeVars>>

\* the awaited fetch rejects: transport error, or AbortSignal.timeout(10000)
fetchThrows(c) ==
    /\ calls[c].pc = "fetch"
    /\ LET cl == calls[c]
           dels == recordError(deliveries, cl.deliveryId, cl.attempt)
           tr == [trace EXCEPT ![cl.deliveryId] =
                    Append(@, RecordedEvent(cl.attempt + 1, "fail"))]
       IN IF errorSurfaces
          THEN /\ calls' = [calls EXCEPT ![c] =
                        [cl EXCEPT !.pc = "done", !.result = "rejected"]]
               /\ deliveries' = deliveries
               /\ trace' = tr
          ELSE afterAttempt(c, cl, FALSE, dels, tr)
    /\ UNCHANGED <<webhooks, webhookIds, updates, storeVars>>

\* mutant: the next attempt reads the webhook from the table again
backoffElapses_rereads(c) ==
    /\ calls[c].pc = "wait"
    /\ LET cl == calls[c]
           k == rowIndex(webhooks, cl.webhook.id, cl.userId)
       IN
        /\ calls' = [calls EXCEPT ![c] = [cl EXCEPT !.pc = "fetch"]]
        /\ trace' = [trace EXCEPT ![cl.deliveryId] =
                Append(@, request(cl.payloadStr,
                                  IF k = 0 THEN cl.webhook ELSE rowToWebhook(webhooks[k]),
                                  cl.attempt))]
    /\ UNCHANGED <<webhooks, webhookIds, updates, deliveries, storeVars>>

\* the backoff timer fires: the next attempt signs and posts
backoffElapses(c) ==
    /\ calls[c].pc = "wait"
    /\ LET cl == calls[c] IN
        /\ calls' = [calls EXCEPT ![c] = [cl EXCEPT !.pc = "fetch"]]
        /\ trace' = [trace EXCEPT ![cl.deliveryId] =
                Append(@, request(cl.payloadStr, cl.webhook, cl.attempt))]
    /\ UNCHANGED <<webhooks, webhookIds, updates, deliveries, storeVars>>

(* --------------------------- specification ---------------------------- *)
CreateInputs ==
    [url : Urls, secret : CreateSecrets, events : EventInputs]

Next ==
    \/ \E userId \in Users, req \in CreateInputs : create(userId, req)
    \/ \E webhookId \in 1..MaxWebhooks, userId \in Users, req \in UpdateInputs :
            update(webhookId, userId, req)
    \/ \E c \in CallIds, eventType \in DeliverEvents, payload \in Payloads,
          userId \in DeliverUsers : deliver(c, eventType, payload, userId)
    \/ \E c \in CallIds, status \in StatusCodes : fetchResponds(c, status)
    \/ \E c \in CallIds : fetchThrows(c)
    \/ \E c \in CallIds : backoffElapses(c)

Spec == Init /\ [][Next]_vars

\* the engine with a registry that is only filled: update writes nothing but
\* the table webhooks, which a delivery reads once, when deliver starts
NextNoUpdate ==
    \/ \E userId \in Users, req \in CreateInputs : create(userId, req)
    \/ \E c \in CallIds, eventType \in DeliverEvents, payload \in Payloads,
          userId \in DeliverUsers : deliver(c, eventType, payload, userId)
    \/ \E c \in CallIds, status \in StatusCodes : fetchResponds(c, status)
    \/ \E c \in CallIds : fetchThrows(c)
    \/ \E c \in CallIds : backoffElapses(c)

\* an awaited fetch settles: a response, an error, or the 10s abort
fetchSettles(c) ==
    \/ \E status \in StatusCodes : fetchResponds(c, status)
    \/ fetchThrows(c)

\* the process keeps running: every fetch settles and every timer fires
FairSpec ==
    /\ Init /\ [][NextNoUpdate]_vars
    /\ \A c \in CallIds : WF_vars(fetchSettles(c)) /\ WF_vars(backoffElapses(c))

(* ------------------------ preferences service ------------------------ *)
Channels == {"in_app", "email", "webhook"}

\* the fields of NotificationPreferences, one per notification type
PreferenceKeys ==
    {"taskAssigned", "taskStatusChanged", "commentAdded", "projectInvited", "taskDueSoon"}

\* the columns of table notification_preferences that hold a channel list
PreferenceColumns ==
    {"task_assigned", "task_status_changed", "comment_added", "project_invited",
     "task_due_soon"}

\* mutant: the default of project_invited is in_app only
DEFAULT_PREFERENCES_inAppOnly ==
    [taskAssigned |-> <<"in_app">>,
     taskStatusChanged |-> <<"in_app">>,
     commentAdded |-> <<"in_app">>,
     projectInvited |-> <<"in_app">>,
     taskDueSoon |-> <<"in_app", "email">>]

DEFAULT_PREFERENCES ==
    [taskAssigned |-> <<"in_app">>,
     taskStatusChanged |-> <<"in_app">>,
     commentAdded |-> <<"in_app">>,
     projectInvited |-> <<"in_app", "email">>,
     taskDueSoon |-> <<"in_app", "email">>]

\* JSON.parse accepts the text of a column (it throws a SyntaxError otherwise):
\* the text is the token sequence of an array of strings
JSONparses(txt) ==
    \/ txt = <<"[", "]">>
    \/ /\ Len(txt) >= 3 /\ Len(txt) % 2 = 1
       /\ txt[1] = "[" /\ txt[Len(txt)] = "]"
       /\ \A k \in 2..(Len(txt) - 1) :
            IF k % 2 = 0 THEN txt[k] \notin {"[", "]", ","} ELSE txt[k] = ","

rowToPreferences(row) ==
    [userId |-> row.user_id,
     taskAssigned |-> JSONparseArray(row.task_assigned),
     taskStatusChanged |-> JSONparseArray(row.task_status_changed),
     commentAdded |-> JSONparseArray(row.comment_added),
     projectInvited |-> JSONparseArray(row.project_invited),
     taskDueSoon |-> JSONparseArray(row.task_due_soon)]

\* rowToPreferences throws: one of its five JSON.parse calls does, and nothing
\* catches it
rowToPreferencesThrows(row) ==
    \E column \in PreferenceColumns : ~JSONparses(row[column])

\* PreferencesService.get on table tbl throws
getThrows(tbl, userId) ==
    tbl[userId] # NULL /\ rowToPreferencesThrows(tbl[userId][1])

\* PreferencesService.get on table tbl, when it returns
get(tbl, userId) ==
    IF tbl[userId] = NULL
    THEN [userId |-> userId,
          taskAssigned |-> DEFAULT_PREFERENCES.taskAssigned,
          taskStatusChanged |-> DEFAULT_PREFERENCES.taskStatusChanged,
          commentAdded |-> DEFAULT_PREFERENCES.commentAdded,
          projectInvited |-> DEFAULT_PREFERENCES.projectInvited,
          taskDueSoon |-> DEFAULT_PREFERENCES.taskDueSoon]
    ELSE rowToPreferences(tbl[userId][1])

\* partial preferences an update request carries (updatePreferencesSchema:
\* every field is an optional array of channels, the empty array included):
\* `has` names the fields present; an absent field is not read
PreferenceInputs ==
    {[has |-> {"projectInvited"}, taskAssigned |-> <<>>, taskStatusChanged |-> <<>>,
      commentAdded |-> <<>>, projectInvited |-> <<"webhook">>, taskDueSoon |-> <<>>],
     [has |-> {"taskAssigned"}, taskAssigned |-> <<"email", "in_app">>,
      taskStatusChanged |-> <<>>, commentAdded |-> <<>>, projectInvited |-> <<>>,
      taskDueSoon |-> <<>>],
     [has |-> {"taskAssigned"}, taskAssigned |-> <<>>,
      taskStatusChanged |-> <<>>, commentAdded |-> <<>>, projectInvited |-> <<>>,
      taskDueSoon |-> <<>>]}

\* mutant: an empty list counts as omitted
orExisting_emptyIsOmitted(prefs, existing, key) ==
    IF key \in prefs.has /\ Len(prefs[key]) > 0 THEN prefs[key] ELSE existing[key]

\* `preferences.field ?? existing.field`
orExisting(prefs, existing, key) ==
    IF key \in prefs.has THEN prefs[key] ELSE existing[key]

\* GET /preferences: PreferencesService.get, with what it returned or that
\* it threw
getPreferences(userId) ==
    /\ response' = [op |-> "getPreferences", userId |-> userId,
                    threw |-> getThrows(preferences, userId),
                    result |-> IF getThrows(preferences, userId) THEN NULL
                               ELSE Some(get(preferences, userId))]
    /\ UNCHANGED <<notifications, preferences, sent_emails, clock, engineVars>>

\* PreferencesService.update (named after its route, PUT /preferences:
\* WebhookService.update has the name update in this module)
putPreferences(userId, prefs) ==
    IF getThrows(preferences, userId)
    THEN /\ response' = [op |-> "putPreferences", userId |-> userId, req |-> prefs,
                         threw |-> TRUE, result |-> NULL]
         /\ UNCHANGED <<notifications, preferences, sent_emails, clock, engineVars>>
    ELSE
    LET existing == get(preferences, userId)
        updated == [taskAssigned |-> orExisting(prefs, existing, "taskAssigned"),
                    taskStatusChanged |-> orExisting(prefs, existing, "taskStatusChanged"),
                    commentAdded |-> orExisting(prefs, existing, "commentAdded"),
                    projectInvited |-> orExisting(prefs, existing, "projectInvited"),
                    taskDueSoon |-> orExisting(prefs, existing, "taskDueSoon")]
    IN /\ preferences' = [preferences EXCEPT ![userId] = Some(
                [user_id |-> userId,
                 task_assigned |-> JSONstringifyArray(updated.taskAssigned),
                 task_status_changed |-> JSONstringifyArray(updated.taskStatusChanged),
                 comment_added |-> JSONstringifyArray(updated.commentAdded),
                 project_invited |-> JSONstringifyArray(updated.projectInvited),
                 task_due_soon |-> JSONstringifyArray(updated.taskDueSoon)])]
       /\ response' = [op |-> "putPreferences", userId |-> userId, req |-> prefs,
                       threw |-> FALSE,
                       result |-> Some([userId |-> userId,
                                        taskAssigned |-> updated.taskAssigned,
                                        taskStatusChanged |-> updated.taskStatusChanged,
                                        commentAdded |-> updated.commentAdded,
                                        projectInvited |-> updated.projectInvited,
                                        taskDueSoon |-> updated.taskDueSoon])]
       /\ UNCHANGED <<notifications, sent_emails, clock, engineVars>>

\* the columns a storage fault hits
CorruptColumns == {"task_assigned"}

\* what an unparseable column holds
CorruptTexts == {<<"not-json">>}

\* storage-layer corruption: a channel-list column of a stored row comes to
\* hold text that is not JSON (the columns are plain TEXT, nothing checks them)
corrupt(userId, column, txt) ==
    /\ preferences[userId] # NULL
    /\ JSONparses(preferences[userId][1][column])
    /\ preferences' = [preferences EXCEPT ![userId] =
                            Some([@[1] EXCEPT ![column] = txt])]
    /\ UNCHANGED <<notifications, sent_emails, clock, response, engineVars>>

\* the preferences service on a table that storage faults may corrupt
NextPref ==
    \/ \E userId \in Users, prefs \in PreferenceInputs : putPreferences(userId, prefs)
    \/ \E userId \in Users : getPreferences(userId)
    \/ \E userId \in Users, column \in CorruptColumns, txt \in CorruptTexts :
            corrupt(userId, column, txt)

PrefSpec == Init /\ [][NextPref]_vars

(* ------------------------ notification service ------------------------ *)
\* notification types of the send requests: one whose default is in_app only
\* and one whose default is in_app and email
SendTypes == {"task_assigned", "project_invited"}

\* metadata objects, as their key-value pairs in insertion order
MetadataInputs == {<< <<"taskId", "123">> >>}

\* explicit channel lists of the send requests
ChannelInputs == {<<"in_app", "email">>, <<"webhook">>}

\* send requests (SendNotificationRequest): `has` names the optional fields
\* present; an absent field is not read
SendInputs ==
    [userId : Users, type : SendTypes, title : {"T1"}, body : {"B1"},
     has : {{}, {"channels"}, {"metadata"}},
     metadata : MetadataInputs, channels : ChannelInputs]

\* JSON.stringify of a string-to-string object with at most one key
JSONstringifyRecord(obj) ==
    IF Len(obj) = 0 THEN <<"{", "}">>
    ELSE <<"{", obj[1][1], ":", obj[1][2], "}">>

\* JSON.parse of such a token sequence
JSONparseRecord(txt) ==
    IF Len(txt) = 2 THEN <<>> ELSE << <<txt[2], txt[4]>> >>

rowToNotification(row) ==
    [id |-> row.id, userId |-> row.user_id, type |-> row.type,
     channel |-> row.channel, title |-> row.title, body |-> row.body,
     metadata |-> JSONparseRecord(row.metadata), read |-> (row.read = 1),
     createdAt |-> row.created_at]

\* mutant: the list of the request is not read
channelsOf_ignoresList(req) == <<"in_app">>

\* `req.channels || ['in_app']`: every array, the empty one too, is truthy
channelsOf(req) ==
    IF "channels" \in req.has THEN req.channels ELSE <<"in_app">>

\* the row send inserts for the k-th channel, with the id nanoid() gives it
newNotification(id, req, channel) ==
    [id |-> id, user_id |-> req.userId, type |-> req.type, channel |-> channel,
     title |-> req.title, body |-> req.body,
     metadata |-> JSONstringifyRecord(IF "metadata" \in req.has THEN req.metadata ELSE <<>>),
     read |-> 0, created_at |-> clock]

\* mutant: send waits for the deliveries in flight to leave their fetch or
\* their backoff
sendAwaits_deliveries == {"fetch", "wait"}

\* the positions of a deliver invocation that send waits out: none, send is
\* a synchronous function without an await and starts no delivery
sendAwaits == {}

\* where the deliver invocations stand (observed when send returns)
callsAt == [c \in CallIds |-> calls[c].pc]

\* mutant: without a list, the channels are the recipient's preference
send_fromPreferences(req, room) ==
    LET channels == IF "channels" \in req.has THEN req.channels
                    ELSE get(preferences, req.userId)[
                            CASE req.type = "task_assigned" -> "taskAssigned"
                              [] req.type = "project_invited" -> "projectInvited"]
        rows == [k \in 1..Len(channels) |->
                    newNotification(Len(notifications) + k, req, channels[k])]
    IN /\ Len(notifications) + Len(channels) <= room
       /\ \A c \in CallIds : calls[c].pc \notin sendAwaits
       /\ notifications' = notifications \o rows
       /\ response' = [op |-> "send", req |-> req,
                       result |-> [k \in 1..Len(rows) |-> rowToNotification(rows[k])],
                       callsAt |-> callsAt]
       /\ UNCHANGED <<preferences, sent_emails, clock, engineVars>>

\* NotificationService.send, on a table with room for `room` rows
send(req, room) ==
    LET channels == channelsOf(req)
        rows == [k \in 1..Len(channels) |->
                    newNotification(Len(notifications) + k, req, channels[k])]
    IN /\ Len(notifications) + Len(channels) <= room
       /\ \A c \in CallIds : calls[c].pc \notin sendAwaits
       /\ notifications' = notifications \o rows
       /\ response' = [op |-> "send", req |-> req,
                       result |-> [k \in 1..Len(rows) |-> rowToNotification(rows[k])],
                       callsAt |-> callsAt]
       /\ UNCHANGED <<preferences, sent_emails, clock, engineVars>>

\* NotificationService.send when the INSERT for its k-th channel throws (a
\* SqliteError: disk full, database locked, id collision): the loop has no
\* try/catch and no transaction, so the rows before stay and send throws
sendThrows(req, k, room) ==
    LET channels == channelsOf(req)
        rows == [j \in 1..(k - 1) |->
                    newNotification(Len(notifications) + j, req, channels[j])]
    IN /\ k \in 1..Len(channels)
       /\ Len(notifications) + (k - 1) <= room
       /\ notifications' = notifications \o rows
       /\ response' = [op |-> "sendThrows", req |-> req, failedAt |-> k]
       /\ UNCHANGED <<preferences, sent_emails, clock, engineVars>>

\* the send requests without metadata
PlainSendInputs == {req \in SendInputs : "metadata" \notin req.has}

\* the user who stores preferences next to the sends (the other user keeps
\* the defaults)
PreferenceUsers == {"u1"}

\* the notification service and the preferences service on their tables
NextSend ==
    \/ \E req \in PlainSendInputs : send(req, MaxNotifications)
    \/ \E userId \in PreferenceUsers, prefs \in PreferenceInputs :
            putPreferences(userId, prefs)

SendSpec == Init /\ [][NextSend]_vars

(* ----------------------------- email sink ----------------------------- *)
\* the arguments of EmailService.send
EmailInputs == {[toEmail |-> "u1@example.com", subject |-> "T1", body |-> "B1"]}

rowToSentEmail(row) ==
    [id |-> row.id, toEmail |-> row.to_email, subject |-> row.subject,
     body |-> row.body, createdAt |-> row.created_at]

\* EmailService.send (named emailSend: NotificationService.send has the name
\* send in this module)
emailSend(toEmail, subject, body) ==
    LET row == [id |-> Len(sent_emails) + 1, to_email |-> toEmail,
                subject |-> subject, body |-> body, created_at |-> clock]
    IN /\ Len(sent_emails) < MaxEmails
       /\ sent_emails' = Append(sent_emails, row)
       /\ response' = [op |-> "emailSend", result |-> rowToSentEmail(row)]
       /\ UNCHANGED <<notifications, preferences, clock, engineVars>>

\* a second passes
tick ==
    /\ clock < MaxClock
    /\ clock' = clock + 1
    /\ UNCHANGED <<notifications, preferences, sent_emails, response, engineVars>>

\* the two services that write notifications and emails, as time passes, and
\* the faults of the storage under send
NextEffect ==
    \/ \E req \in SendInputs : send(req, MaxNotifications)
    \/ \E req \in SendInputs, k \in 1..2 : sendThrows(req, k, MaxNotifications)
    \/ \E mail \in EmailInputs : emailSend(mail.toEmail, mail.subject, mail.body)
    \/ tick

EffectSpec == Init /\ [][NextEffect]_vars

(* ------------------- dispatcher next to the engine -------------------- *)
\* send requests made while deliveries are in flight
DispatchSendInputs ==
    [userId : DeliverUsers, type : {"task_assigned"}, title : {"T1"}, body : {"B1"},
     has : {{"channels"}}, metadata : MetadataInputs,
     channels : {<<"in_app", "webhook">>}]

\* the process as a whole: the event loop runs send between the awaits of
\* the deliver invocations
NextDispatch ==
    \/ \E userId \in Users, req \in CreateInputs : create(userId, req)
    \/ \E c \in CallIds, eventType \in DeliverEvents, payload \in Payloads,
          userId \in DeliverUsers : deliver(c, eventType, payload, userId)
    \/ \E c \in CallIds, status \in StatusCodes : fetchResponds(c, status)
    \/ \E c \in CallIds : fetchThrows(c)
    \/ \E c \in CallIds : backoffElapses(c)
    \/ \E req \in DispatchSendInputs : send(req, MaxNotifications)

DispatchSpec == Init /\ [][NextDispatch]_vars

(* --------------------------- listing records -------------------------- *)
Max(a, b) == IF a >= b THEN a ELSE b

Min(a, b) == IF a <= b THEN a ELSE b

\* `value || fallback` for an optional number: undefined and 0 are falsy
orDefault(value, fallback) ==
    IF value = NULL \/ value = Some(0) THEN fallback ELSE value[1]

\* the user whose records are listed (the other user's records are then the
\* records of someone else)
ListUsers == {"u1"}

\* pagination queries (PaginationQuery): a field is NULL when absent; the
\* service takes any number, the route only 1.. (and a page size up to 100)
ListInputs ==
    [page : {NULL, Some(0), Some(-1), Some(1), Some(2), Some(3)},
     pageSize : {NULL, Some(0), Some(-1), Some(2), Some(101)}]

\* `Math.max(1, query.page || 1)`
pageOf(query) == Max(1, orDefault(query.page, 1))

\* mutant: the upper clamp is missing
pageSizeOf_noUpperClamp(query) == Max(1, orDefault(query.pageSize, 20))

\* `Math.min(100, Math.max(1, query.pageSize || 20))`
pageSizeOf(query) == Min(100, Max(1, orDefault(query.pageSize, 20)))

\* row a comes before row b under ORDER BY created_at DESC, ties as given
before(a, b, ties) ==
    \/ a.created_at > b.created_at
    \/ /\ a.created_at = b.created_at
       /\ IF ties = "rowid asc" THEN a.id < b.id ELSE a.id > b.id

\* mutant: the selection has no WHERE user_id = ?
selectNotifications_anyUser(userId, ties) ==
    LET rows == notifications
        rank(k) == 1 + Cardinality({m \in 1..Len(rows) : before(rows[m], rows[k], ties)})
    IN [r \in 1..Len(rows) |-> rows[CHOOSE k \in 1..Len(rows) : rank(k) = r]]

\* SELECT * FROM notifications WHERE user_id = ? ORDER BY created_at DESC
selectNotifications(userId, ties) ==
    LET rows == SelectSeq(notifications, LAMBDA r : r.user_id = userId)
        rank(k) == 1 + Cardinality({m \in 1..Len(rows) : before(rows[m], rows[k], ties)})
    IN [r \in 1..Len(rows) |-> rows[CHOOSE k \in 1..Len(rows) : rank(k) = r]]

\* mutant: the offset is not applied
limitOffset_noOffset(rows, limit, offset) == SubSeq(rows, 1, Min(limit, Len(rows)))

\* LIMIT ? OFFSET ?
limitOffset(rows, limit, offset) ==
    IF offset >= Len(rows) THEN <<>>
    ELSE SubSeq(rows, offset + 1, Min(offset + limit, Len(rows)))

\* NotificationService.list
list(userId, query, ties) ==
    LET page == pageOf(query)
        pageSize == pageSizeOf(query)
        offset == (page - 1) * pageSize
        total == Len(SelectSeq(notifications, LAMBDA r : r.user_id = userId))
        rows == limitOffset(selectNotifications(userId, ties), pageSize, offset)
    IN /\ response' = [op |-> "list", userId |-> userId, query |-> query,
                       result |-> [items |-> [k \in 1..Len(rows) |-> rowToNotification(rows[k])],
                                   total |-> total, page |-> page,
                                   pageSize |-> pageSize,
                                   hasMore |-> (offset + pageSize < total)]]
       /\ UNCHANGED <<notifications, preferences, sent_emails, clock, engineVars>>

\* the send requests that fill the table for the listings: one record each
ListSendInputs ==
    [userId : Users, type : {"task_assigned"}, title : {"T1"}, body : {"B1"},
     has : {{}}, metadata : MetadataInputs, channels : {<<"in_app">>}]

\* the notification store: records are sent, all within one second of the
\* clock, and listed
NextList ==
    \/ \E req \in ListSendInputs : send(req, MaxRecords)
    \/ \E userId \in ListUsers, query \in ListInputs, ties \in TieOrders :
            list(userId, query, ties)

ListSpec == Init /\ [][NextList]_vars

\* the notification store with the clock: records are sent in the same or in
\* different seconds, and listed
NextOrder ==
    \/ \E req \in ListSendInputs : send(req, MaxNotifications)
    \/ tick
    \/ \E userId \in ListUsers, query \in ListInputs, ties \in TieOrders :
            list(userId, query, ties)

OrderSpec == Init /\ [][NextOrder]_vars

(* --------------------- registry and delivery history ------------------ *)
\* JSON.parse of a serialised payload object
JSONparsePayload(txt) == [title |-> txt[4], body |-> txt[8]]

rowToDelivery(row) ==
    [id |-> row.id, webhookId |-> row.webhook_id, eventType |-> row.event_type,
     payload |-> JSONparsePayload(row.payload), status |-> row.status,
     responseCode |-> row.response_code, attempts |-> row.attempts,
     lastAttemptAt |-> row.last_attempt_at]

\* mutant: the ownership check is missing
getDeliveriesResult_anyOwner(whs, dels, webhookId, userId) ==
    LET rows == SelectSeq(dels, LAMBDA r : r.webhook_id = webhookId)
    IN [k \in 1..Len(rows) |-> rowToDelivery(rows[k])]

\* what getDeliveries returns: [] unless getById finds the webhook, else
\* SELECT * FROM webhook_deliveries WHERE webhook_id = ? ORDER BY created_at
\* DESC (one call of deliver makes at most one row per webhook)
getDeliveriesResult(whs, dels, webhookId, userId) ==
    IF getByIdResult(whs, webhookId, userId) = NULL THEN <<>>
    ELSE LET rows == SelectSeq(dels, LAMBDA r : r.webhook_id = webhookId)
         IN [k \in 1..Len(rows) |-> rowToDelivery(rows[k])]

\* WebhookService.getDeliveries
getDeliveries(webhookId, userId) ==
    /\ response' = [op |-> "getDeliveries", webhookId |-> webhookId, userId |-> userId,
                    result |-> getDeliveriesResult(webhooks, deliveries, webhookId, userId)]
    /\ UNCHANGED <<notifications, preferences, sent_emails, clock, engineVars>>

\* create requests of the registry
RegistryCreateInputs == {req \in CreateInputs : req.events = <<"task_assigned">>}

\* the registry on its own: webhooks of two users are created, read, updated
\* and deleted by either user
NextRegistry ==
    \/ \E userId \in Users, req \in RegistryCreateInputs : create(userId, req)
    \/ \E webhookId \in 1..MaxWebhooks, userId \in Users, req \in RegistryUpdateInputs :
            updateReturns(webhookId, userId, req)
    \/ \E webhookId \in 1..MaxWebhooks, userId \in Users : delete(webhookId, userId)
    \/ \E webhookId \in 1..MaxWebhooks, userId \in Users : getById(webhookId, userId)
    \/ \E userId \in Users, ties \in TieOrders : webhookList(userId, ties)

RegistrySpec == Init /\ [][NextRegistry]_vars

\* the registry next to a delivery: webhooks are created and deleted while a
\* call of deliver inserts its rows and its endpoints answer, and the
\* delivery rows are read
NextHistory ==
    \/ \E userId \in Users, req \in RegistryCreateInputs : create(userId, req)
    \/ \E c \in CallIds, eventType \in {"task_assigned"}, payload \in Payloads,
          userId \in DeliverUsers : deliver(c, eventType, payload, userId)
    \/ \E c \in CallIds, status \in StatusCodes : fetchResponds(c, status)
    \/ \E webhookId \in 1..MaxWebhooks, userId \in Users : delete(webhookId, userId)
    \/ \E webhookId \in 1..MaxWebhooks, userId \in Users : getDeliveries(webhookId, userId)

HistorySpec == Init /\ [][NextHistory]_vars

(* ------------------- updates during a delivery ------------------------ *)
\* update requests that reconfigure a webhook: the two of UpdateInputs, and
\* one that replaces url, secret and events and deactivates the webhook
SnapshotUpdateInputs ==
    UpdateInputs \cup
    {[has |-> {"url", "secret", "events", "active"}, url |-> "https://b.example/hook",
      secret |-> "s2", events |-> <<"comment_added">>, active |-> FALSE]}

\* the engine for one user whose webhooks are reconfigured while a delivery
\* is between its attempts
NextSnapshot ==
    \/ \E userId \in DeliverUsers, req \in RegistryCreateInputs : create(userId, req)
    \/ \E webhookId \in 1..MaxWebhooks, userId \in DeliverUsers,
          req \in SnapshotUpdateInputs : update(webhookId, userId, req)
    \/ \E c \in CallIds, payload \in Payloads, userId \in DeliverUsers :
            deliver(c, "task_assigned", payload, userId)
    \/ \E c \in CallIds, status \in StatusCodes : fetchResponds(c, status)
    \/ \E c \in CallIds : fetchThrows(c)
    \/ \E c \in CallIds : backoffElapses(c)

SnapshotSpec == Init /\ [][NextSnapshot]_vars

(* ------------- deliveries, updates and deletes together --------------- *)
\* the registry of one user changing under a delivery: webhooks are created,
\* updated and deleted while a call of deliver inserts its rows and makes
\* its attempts
NextIntegrity ==
    \/ \E userId \in DeliverUsers, req \in RegistryCreateInputs : create(userId, req)
    \/ \E webhookId \in 1..MaxWebhooks, userId \in DeliverUsers, req \in UpdateInputs :
            update(webhookId, userId, req)
    \/ \E webhookId \in 1..MaxWebhooks, userId \in DeliverUsers : delete(webhookId, userId)
    \/ \E c \in CallIds, payload \in Payloads, userId \in DeliverUsers :
            deliver(c, "task_assigned", payload, userId)
    \/ \E c \in CallIds, status \in StatusCodes : fetchResponds(c, status)
    \/ \E c \in CallIds : fetchThrows(c)
    \/ \E c \in CallIds : backoffElapses(c)

IntegritySpec == Init /\ [][NextIntegrity]_vars

(* ----------------------- concurrent deliveries ----------------------- *)
\* two deliver invocations whose awaits interleave
ConcurrentCalls == {1, 2}

\* the registry after create("u1", ...) and create("u2", ...): a webhook of
\* each user, the first subscribed to both event types delivered
ConcurrentInit ==
    /\ webhooks =
            <<[id |-> 1, user_id |-> "u1", url |-> "https://a.example/hook",
               secret |-> "s1",
               events |-> JSONstringifyArray(<<"comment_added", "task_assigned">>),
               active |-> 1],
              [id |-> 2, user_id |-> "u2", url |-> "https://a.example/hook",
               secret |-> "s1", events |-> JSONstringifyArray(<<"task_assigned">>),
               active |-> 1]>>
    /\ webhookIds = 2
    /\ updates = 0
    /\ deliveries = <<>>
    /\ calls = [c \in ConcurrentCalls |-> IdleCall]
    /\ trace = <<>>
    /\ notifications = <<>>
    /\ preferences = [u \in Users |-> NULL]
    /\ sent_emails = <<>>
    /\ clock = 0
    /\ response = NoResponse

\* the engine with two invocations of deliver, for either user and either
\* event type, each at its own await
NextConcurrent ==
    \/ \E c \in ConcurrentCalls, eventType \in DeliverEvents, payload \in Payloads,
          userId \in Users : deliver(c, eventType, payload, userId)
    \/ \E c \in ConcurrentCalls, status \in StatusCodes : fetchResponds(c, status)
    \/ \E c \in ConcurrentCalls : fetchThrows(c)
    \/ \E c \in ConcurrentCalls : backoffElapses(c)

ConcurrentSpec == ConcurrentInit /\ [][NextConcurrent]_vars

(* ----------------------------- read flags ----------------------------- *)
\* mutant: the owner is not part of the selection
selectNotification_anyOwner(tbl, notificationId, userId) ==
    {k \in 1..Len(tbl) : tbl[k].id = notificationId}

\* SELECT * FROM notifications WHERE id = ? AND user_id = ?: the positions of
\* the rows selected (ids are unique, so at most one)
selectNotification(tbl, notificationId, userId) ==
    {k \in 1..Len(tbl) : tbl[k].id = notificationId /\ tbl[k].user_id = userId}

\* mutant: the id is not part of the update, every row is set
setRead_everyRow(tbl, notificationId) ==
    [k \in 1..Len(tbl) |-> [tbl[k] EXCEPT !.read = 1]]

\* UPDATE notifications SET read = 1 WHERE id = ?
setRead(tbl, notificationId) ==
    [k \in 1..Len(tbl) |->
        IF tbl[k].id = notificationId THEN [tbl[k] EXCEPT !.read = 1] ELSE tbl[k]]

\* mutant: the update is SET read = 1 - read
markAsRead_toggles(notificationId, userId) ==
    LET found == selectNotification(notifications, notificationId, userId)
    IN /\ IF found = {}
          THEN /\ response' = [op |-> "markAsRead", notificationId |-> notificationId,
                               userId |-> userId, result |-> NULL]
               /\ UNCHANGED notifications
          ELSE LET row == notifications[CHOOSE k \in found : TRUE]
               IN /\ notifications' =
                        [k \in 1..Len(notifications) |->
                            IF notifications[k].id = notificationId
                            THEN [notifications[k] EXCEPT !.read = 1 - @]
                            ELSE notifications[k]]
                  /\ response' = [op |-> "markAsRead",
                                  notificationId |-> notificationId, userId |-> userId,
                                  result |-> Some(rowToNotification([row EXCEPT !.read = 1]))]
       /\ UNCHANGED <<preferences, sent_emails, clock, engineVars>>

\* NotificationService.markAsRead: the result is built from the row selected
\* before the update, with read set
markAsRead(notificationId, userId) ==
    LET found == selectNotification(notifications, notificationId, userId)
    IN /\ IF found = {}
          THEN /\ response' = [op |-> "markAsRead", notificationId |-> notificationId,
                               userId |-> userId, result |-> NULL]
               /\ UNCHANGED notifications
          ELSE LET row == notifications[CHOOSE k \in found : TRUE]
               IN /\ notifications' = setRead(notifications, notificationId)
                  /\ response' = [op |-> "markAsRead",
                                  notificationId |-> notificationId, userId |-> userId,
                                  result |-> Some(rowToNotification([row EXCEPT !.read = 1]))]
       /\ UNCHANGED <<preferences, sent_emails, clock, engineVars>>

\* mutant: the rows already read are counted as changed too
markAllAsRead_countsRead(userId) ==
    LET changed == {k \in 1..Len(notifications) : notifications[k].user_id = userId}
    IN /\ notifications' =
            [k \in 1..Len(notifications) |->
                IF k \in changed THEN [notifications[k] EXCEPT !.read = 1]
                ELSE notifications[k]]
       /\ response' = [op |-> "markAllAsRead", userId |-> userId,
                       result |-> Cardinality(changed)]
       /\ UNCHANGED <<preferences, sent_emails, clock, engineVars>>

\* NotificationService.markAllAsRead: UPDATE notifications SET read = 1 WHERE
\* user_id = ? AND read = 0, returning result.changes
markAllAsRead(userId) ==
    LET changed == {k \in 1..Len(notifications) :
                        notifications[k].user_id = userId /\ notifications[k].read = 0}
    IN /\ notifications' =
            [k \in 1..Len(notifications) |->
                IF k \in changed THEN [notifications[k] EXCEPT !.read = 1]
                ELSE notifications[k]]
       /\ response' = [op |-> "markAllAsRead", userId |-> userId,
                       result |-> Cardinality(changed)]
       /\ UNCHANGED <<preferences, sent_emails, clock, engineVars>>

\* mutant: the user is not part of the count
unreadCount_anyUser(tbl, userId) ==
    Cardinality({k \in 1..Len(tbl) : tbl[k].read = 0})

\* SELECT COUNT(*) FROM notifications WHERE user_id = ? AND read = 0
unreadCount(tbl, userId) ==
    Cardinality({k \in 1..Len(tbl) : tbl[k].user_id = userId /\ tbl[k].read = 0})

\* NotificationService.getUnreadCount
getUnreadCount(userId) ==
    /\ response' = [op |-> "getUnreadCount", userId |-> userId,
                    result |-> unreadCount(notifications, userId)]
    /\ UNCHANGED <<notifications, preferences, sent_emails, clock, engineVars>>

\* the send requests that fill the table for the read flags: one record
\* each, with metadata
ReadSendInputs ==
    [userId : Users, type : {"task_assigned"}, title : {"T1"}, body : {"B1"},
     has : {{"metadata"}}, metadata : MetadataInputs, channels : {<<"in_app">>}]

\* notification ids of the requests: those of the records and one past them
NotificationIds == 1..(MaxReadRecords + 1)

\* the notification store and its read flags
NextRead ==
    \/ \E req \in ReadSendInputs : send(req, MaxReadRecords)
    \/ \E notificationId \in NotificationIds, userId \in Users :
            markAsRead(notificationId, userId)
    \/ \E userId \in Users : markAllAsRead(userId)
    \/ \E userId \in Users : getUnreadCount(userId)

ReadSpec == Init /\ [][NextRead]_vars

\* the pages listed next to the read flags: the first two, of two records
IsolationQueries ==
    {[page |-> NULL, pageSize |-> Some(2)], [page |-> Some(2), pageSize |-> Some(2)]}

\* the notification store used by two users: each is sent records, marks
\* them read, counts and lists them
NextIsolation ==
    \/ \E req \in ReadSendInputs : send(req, MaxReadRecords)
    \/ \E notificationId \in NotificationIds, userId \in Users :
            markAsRead(notificationId, userId)
    \/ \E userId \in Users : markAllAsRead(userId)
    \/ \E userId \in Users : getUnreadCount(userId)
    \/ \E userId \in Users, query \in IsolationQueries, ties \in TieOrders :
            list(userId, query, ties)

IsolationSpec == Init /\ [][NextIsolation]_vars

(* ------------------------------- routes ------------------------------- *)
\* the x-user-id header of a request: absent, empty, or a user id
Identities == {NULL, Some(""), Some("u1")}

\* authMiddleware: `if (!userId)` answers 401 and does not call next()
authMiddleware(identity) == identity # NULL /\ identity[1] # ""

\* the body of a request that has none
NoBody == [empty |-> TRUE]

\* the answer of a route that did not reach its service: 401 and 403 are
\* sent by the middleware, a ValidationError is thrown by the handler; body
\* is the body, the query or the path parameter of the request
rejected(route, error, identity, body) ==
    /\ response' = [op |-> "rejected", route |-> route, error |-> error,
                    identity |-> identity, body |-> body]
    /\ UNCHANGED <<notifications, preferences, sent_emails, clock, engineVars>>

\* the strings `new URL()` parses, of those the requests carry
URLparses(url) == url \in {"https://a.example/hook", "https://b.example/hook"}

\* z.array(notificationTypeSchema).min(1)
eventsSchema(events) ==
    /\ Len(events) >= 1
    /\ \A k \in 1..Len(events) : events[k] \in NotificationTypes

\* mutant: the event list may be empty
createWebhookSchema_noMin(body) ==
    /\ URLparses(body.url)
    /\ body.secret # ""
    /\ \A k \in 1..Len(body.events) : body.events[k] \in NotificationTypes

\* createWebhookSchema.safeParse(req.body).success
createWebhookSchema(body) ==
    /\ URLparses(body.url)
    /\ body.secret # ""
    /\ eventsSchema(body.events)

\* mutant: events is z.array(z.string()), any list
updateWebhookSchema_anyEvents(body) ==
    /\ body.has \subseteq {"url", "secret", "events", "active"}
    /\ "url" \in body.has => URLparses(body.url)
    /\ "secret" \in body.has => body.secret # ""

\* updateWebhookSchema.safeParse(req.body).success: every field optional, no
\* other key (strict)
updateWebhookSchema(body) ==
    /\ body.has \subseteq {"url", "secret", "events", "active"}
    /\ "url" \in body.has => URLparses(body.url)
    /\ "secret" \in body.has => body.secret # ""
    /\ "events" \in body.has => eventsSchema(body.events)

\* bodies of POST /webhooks
WebhookBodies ==
    [url : {"https://a.example/hook", "not-a-url"}, secret : {"s1", ""},
     events : {<<"task_assigned">>, <<>>, <<"invalid_event">>}]

\* bodies of PATCH /webhooks/:id
WebhookPatchBodies ==
    {[has |-> {"active"}, url |-> "", secret |-> "", events |-> <<>>, active |-> FALSE],
     [has |-> {"events"}, url |-> "", secret |-> "", events |-> <<"comment_added">>,
      active |-> FALSE],
     [has |-> {"events"}, url |-> "", secret |-> "", events |-> <<>>, active |-> FALSE],
     [has |-> {"events", "active"}, url |-> "", secret |-> "",
      events |-> <<"invalid_event">>, active |-> FALSE],
     [has |-> {"url"}, url |-> "not-a-url", secret |-> "", events |-> <<>>,
      active |-> FALSE],
     [has |-> {"unknownField", "active"}, url |-> "", secret |-> "", events |-> <<>>,
      active |-> FALSE]}

\* POST /webhooks
POST_webhooks(identity, body) ==
    IF ~authMiddleware(identity)
    THEN rejected("POST /webhooks", "UNAUTHORIZED", identity, body)
    ELSE IF ~createWebhookSchema(body)
    THEN rejected("POST /webhooks", "ValidationError", identity, body)
    ELSE create(identity[1], body)

\* PATCH /webhooks/:id
PATCH_webhooks_id(identity, webhookId, body) ==
    IF ~authMiddleware(identity)
    THEN rejected("PATCH /webhooks/:id", "UNAUTHORIZED", identity, body)
    ELSE IF ~updateWebhookSchema(body)
    THEN rejected("PATCH /webhooks/:id", "ValidationError", identity, body)
    ELSE updateReturns(webhookId, identity[1], body)

\* the webhook registry behind its routes
NextWebhookApi ==
    \/ \E identity \in Identities, body \in WebhookBodies : POST_webhooks(identity, body)
    \/ \E identity \in Identities, webhookId \in 1..MaxWebhooks,
          body \in WebhookPatchBodies : PATCH_webhooks_id(identity, webhookId, body)

WebhookApiSpec == Init /\ [][NextWebhookApi]_vars

\* process.env.NEXUS_SERVICE_TOKEN || 'nexus-internal-service-token'
SERVICE_TOKEN == "nexus-internal-service-token"

\* the x-service-token and authorization headers of a request: absent, or a
\* string; an authorization header is its scheme prefix, if it has one, and
\* the rest
Credentials ==
    [serviceToken : {NULL, Some(SERVICE_TOKEN), Some("wrong")},
     authorization : {NULL, Some(<<"Bearer ", SERVICE_TOKEN>>),
                      Some(<<"Bearer ", "wrong">>), Some(<<SERVICE_TOKEN>>)}]

\* `authHeader?.startsWith('Bearer ') ? authHeader.slice(7) : null`
bearerToken(authHeader) ==
    IF authHeader # NULL /\ Len(authHeader[1]) = 2 /\ authHeader[1][1] = "Bearer "
    THEN Some(authHeader[1][2])
    ELSE NULL

\* mutant: any token that is present passes
serviceAuthMiddleware_anyToken(credentials) ==
    \/ credentials.serviceToken # NULL
    \/ bearerToken(credentials.authorization) # NULL

\* serviceAuthMiddleware: next() is called only for the service token, in
\* either header; otherwise 403
serviceAuthMiddleware(credentials) ==
    \/ credentials.serviceToken = Some(SERVICE_TOKEN)
    \/ bearerToken(credentials.authorization) = Some(SERVICE_TOKEN)

\* mutant: the type is any string
sendNotificationSchema_anyType(body) ==
    /\ body.userId # ""
    /\ body.title # ""
    /\ body.body # ""
    /\ "channels" \in body.has =>
            \A k \in 1..Len(body.channels) : body.channels[k] \in Channels

\* sendNotificationSchema.safeParse(req.body).success (metadata, when
\* present, is a string-to-string object in every body modelled)
sendNotificationSchema(body) ==
    /\ body.userId # ""
    /\ body.type \in NotificationTypes
    /\ body.title # ""
    /\ body.body # ""
    /\ "channels" \in body.has =>
            \A k \in 1..Len(body.channels) : body.channels[k] \in Channels

\* bodies of POST /notifications/send
SendBodies ==
    [userId : {"u1", ""}, type : {"task_assigned", "invalid_type"},
     title : {"T1", ""}, body : {"B1", ""}, has : {{}, {"channels"}},
     metadata : MetadataInputs, channels : {<<"in_app">>, <<"sms">>}]

\* POST /notifications/send (room: the records the table has room for)
POST_notifications_send(credentials, body, room) ==
    IF ~serviceAuthMiddleware(credentials)
    THEN rejected("POST /notifications/send", "FORBIDDEN", NULL, body)
    ELSE IF ~sendNotificationSchema(body)
    THEN rejected("POST /notifications/send", "ValidationError", NULL, body)
    ELSE send(body, room)

\* bodies of PUT /preferences: `has` names the keys of the body, `nonList`
\* those of them whose value is not an array
PreferenceBodies ==
    {[has |-> {"taskAssigned"}, nonList |-> {}, taskAssigned |-> <<"email">>,
      taskStatusChanged |-> <<>>, commentAdded |-> <<>>, projectInvited |-> <<>>,
      taskDueSoon |-> <<>>],
     [has |-> {"taskAssigned"}, nonList |-> {}, taskAssigned |-> <<"sms">>,
      taskStatusChanged |-> <<>>, commentAdded |-> <<>>, projectInvited |-> <<>>,
      taskDueSoon |-> <<>>],
     [has |-> {"taskAssigned"}, nonList |-> {"taskAssigned"}, taskAssigned |-> <<>>,
      taskStatusChanged |-> <<>>, commentAdded |-> <<>>, projectInvited |-> <<>>,
      taskDueSoon |-> <<>>],
     [has |-> {"taskAssigned", "unknownField"}, nonList |-> {},
      taskAssigned |-> <<"in_app">>, taskStatusChanged |-> <<>>, commentAdded |-> <<>>,
      projectInvited |-> <<>>, taskDueSoon |-> <<>>]}

\* updatePreferencesSchema.safeParse(req.body).success: each of the five keys
\* optional and an array of channels, no other key (strict)
updatePreferencesSchema(body) ==
    /\ body.has \subseteq PreferenceKeys
    /\ body.nonList \cap body.has = {}
    /\ \A key \in body.has \cap PreferenceKeys :
            \A k \in 1..Len(body[key]) : body[key][k] \in Channels

\* PUT /preferences
PUT_preferences(identity, body) ==
    IF ~authMiddleware(identity)
    THEN rejected("PUT /preferences", "UNAUTHORIZED", identity, body)
    ELSE IF ~updatePreferencesSchema(body)
    THEN rejected("PUT /preferences", "ValidationError", identity, body)
    ELSE putPreferences(identity[1], body)

\* the credentials of the requests whose bodies are validated
ValidatedCredentials ==
    {c \in Credentials : c.authorization = NULL /\ c.serviceToken # Some("wrong")}

\* the send entry point and the preferences update behind their routes
NextValidation ==
    \/ \E credentials \in ValidatedCredentials, body \in SendBodies :
            POST_notifications_send(credentials, body, MaxNotifications)
    \/ \E identity \in Identities, body \in PreferenceBodies :
            PUT_preferences(identity, body)

ValidationSpec == Init /\ [][NextValidation]_vars

\* paginationSchema.safeParse(req.query).success
paginationSchema(query) ==
    /\ query.page # NULL => query.page[1] >= 1
    /\ query.pageSize # NULL => query.pageSize[1] \in 1..100

\* GET /notifications
GET_notifications(identity, query, ties) ==
    IF ~authMiddleware(identity)
    THEN rejected("GET /notifications", "UNAUTHORIZED", identity, query)
    ELSE IF ~paginationSchema(query)
    THEN rejected("GET /notifications", "ValidationError", identity, query)
    ELSE list(identity[1], query, ties)

\* PATCH /notifications/:id/read
PATCH_notifications_id_read(identity, notificationId) ==
    IF ~authMiddleware(identity)
    THEN rejected("PATCH /notifications/:id/read", "UNAUTHORIZED", identity,
                  [id |-> notificationId])
    ELSE markAsRead(notificationId, identity[1])

\* POST /notifications/read-all
POST_notifications_read_all(identity) ==
    IF ~authMiddleware(identity)
    THEN rejected("POST /notifications/read-all", "UNAUTHORIZED", identity, NoBody)
    ELSE markAllAsRead(identity[1])

\* GET /notifications/unread-count
GET_notifications_unread_count(identity) ==
    IF ~authMiddleware(identity)
    THEN rejected("GET /notifications/unread-count", "UNAUTHORIZED", identity, NoBody)
    ELSE getUnreadCount(identity[1])

\* GET /preferences
GET_preferences(identity) ==
    IF ~authMiddleware(identity)
    THEN rejected("GET /preferences", "UNAUTHORIZED", identity, NoBody)
    ELSE getPreferences(identity[1])

\* GET /webhooks
GET_webhooks(identity, ties) ==
    IF ~authMiddleware(identity)
    THEN rejected("GET /webhooks", "UNAUTHORIZED", identity, NoBody)
    ELSE webhookList(identity[1], ties)

\* DELETE /webhooks/:id
DELETE_webhooks_id(identity, webhookId) ==
    IF ~authMiddleware(identity)
    THEN rejected("DELETE /webhooks/:id", "UNAUTHORIZED", identity,
                  [id |-> webhookId])
    ELSE delete(webhookId, identity[1])

\* GET /webhooks/:id/deliveries
GET_webhooks_id_deliveries(identity, webhookId) ==
    IF ~authMiddleware(identity)
    THEN rejected("GET /webhooks/:id/deliveries", "UNAUTHORIZED", identity,
                  [id |-> webhookId])
    ELSE getDeliveries(webhookId, identity[1])

\* the bodies and queries of the requests that are let in: one of each
ApiSendBodies ==
    {body \in SendBodies :
        sendNotificationSchema(body) /\ body.has = {} /\ body.channels = <<"in_app">>}

ApiQueries == {[page |-> NULL, pageSize |-> Some(2)]}

ApiPreferenceBodies == {body \in PreferenceBodies : body.taskAssigned = <<"email">>}

ApiWebhookBodies == {body \in WebhookBodies : createWebhookSchema(body)}

ApiWebhookPatchBodies == {body \in WebhookPatchBodies : body.has = {"active"}}

\* the requests on the user-scoped routes, for a value of the x-user-id header
userRoutes(identity) ==
    \/ \E query \in ApiQueries, ties \in TieOrders : GET_notifications(identity, query, ties)
    \/ \E notificationId \in 1..2 :
            PATCH_notifications_id_read(identity, notificationId)
    \/ POST_notifications_read_all(identity)
    \/ GET_notifications_unread_count(identity)
    \/ GET_preferences(identity)
    \/ \E body \in ApiPreferenceBodies : PUT_preferences(identity, body)
    \/ \E body \in ApiWebhookBodies : POST_webhooks(identity, body)
    \/ \E ties \in TieOrders : GET_webhooks(identity, ties)
    \/ \E webhookId \in 1..MaxWebhooks, body \in ApiWebhookPatchBodies :
            PATCH_webhooks_id(identity, webhookId, body)
    \/ \E webhookId \in 1..MaxWebhooks : DELETE_webhooks_id(identity, webhookId)
    \/ \E webhookId \in 1..MaxWebhooks : GET_webhooks_id_deliveries(identity, webhookId)

\* the requests on the send entry point, for the values of its headers (one
\* record is enough here)
serviceRoutes(credentials) ==
    \E body \in ApiSendBodies : POST_notifications_send(credentials, body, 1)

\* the service behind its routes, with and without credentials
NextApi ==
    \/ \E identity \in Identities : userRoutes(identity)
    \/ \E credentials \in Credentials : serviceRoutes(credentials)

ApiSpec == Init /\ [][NextApi]_vars

(* ====================== properties of the engine ====================== *)
DeliveryIds == 1..Len(deliveries)

Terminal(row) == row.status \in {"delivered", "failed"}

Is2xx(code) == code \in 200..299

\* the events of one type in the trace of delivery row d
EventsOf(d, type) == SelectSeq(trace[d], LAMBDA e : e.type = type)

Posts(d) == Len(EventsOf(d, "post"))

\* what the endpoint did to the attempts of row d, in order
Outcomes(d) == [k \in 1..Len(EventsOf(d, "recorded")) |-> EventsOf(d, "recorded")[k].outcome]

\* the call that inserted delivery row d
CallOf(d) == CHOOSE c \in CallIds : \E k \in 1..Len(calls[c].made) : calls[c].made[k] = d

\* C1: a row whose endpoint failed twice and then answered 2xx ends with
\* attempts=3, status=delivered; a row whose endpoint failed three times ends
\* with attempts=3, status=failed; no row ever gets a 4th POST; a call makes
\* one row per selected webhook.
C1_RetryOutcome ==
    /\ \A d \in DeliveryIds :
        /\ Posts(d) <= 3
        /\ Outcomes(d) = <<"fail", "fail", "2xx">> =>
                deliveries[d].attempts = 3 /\ deliveries[d].status = "delivered"
        /\ Outcomes(d) = <<"fail", "fail", "fail">> =>
                deliveries[d].attempts = 3 /\ deliveries[d].status = "failed"
    /\ \A c \in CallIds : \A a, b \in 1..Len(calls[c].made) :
            a # b => deliveries[calls[c].made[a]].webhook_id
                        # deliveries[calls[c].made[b]].webhook_id

\* one call, two rows: one delivered on the 3rd attempt, one failed three times
C1_Witness ==
    \E c \in CallIds : \E d, e \in DeliveryIds :
        /\ CallOf(d) = c /\ CallOf(e) = c
        /\ Outcomes(d) = <<"fail", "fail", "2xx">>
        /\ Outcomes(e) = <<"fail", "fail", "fail">>
        /\ calls[c].pc = "done"

\* C2: every delivery row has 0 <= attempts <= 3; failed implies attempts=3;
\* pending implies attempts<3; delivered implies 1 <= attempts <= 3 and a 2xx
\* response code.
C2_RowInvariant ==
    \A d \in DeliveryIds :
        LET row == deliveries[d] IN
        /\ row.attempts \in 0..3
        /\ row.status \in {"pending", "delivered", "failed"}
        /\ row.status = "failed" => row.attempts = 3
        /\ row.status = "pending" => row.attempts < 3
        /\ row.status = "delivered" =>
                /\ row.attempts \in 1..3
                /\ row.response_code # NULL
                /\ Is2xx(row.response_code[1])

\* a failed row and a delivered row, the failed one after a non-2xx response
C2_Witness ==
    \E d, e \in DeliveryIds :
        /\ deliveries[d].status = "failed" /\ deliveries[d].response_code = Some(500)
        /\ deliveries[e].status = "delivered" /\ deliveries[e].attempts = 2

\* C3: every delivery row that exists eventually has a terminal status, when
\* every fetch settles and every backoff timer fires.
C3_EveryRowTerminates ==
    \A d \in 1..MaxWebhooks :
        (d \in DeliveryIds) ~> (d \in DeliveryIds /\ Terminal(deliveries[d]))

\* a row that went through both backoff waits and is terminal
C3_Witness ==
    \E d \in DeliveryIds :
        /\ Terminal(deliveries[d])
        /\ Len(EventsOf(d, "wait")) = 2

\* C4: once a row is delivered or failed, no step changes the row or issues
\* another POST (or anything else) for it.
C4_TerminalIsFinal ==
    [][\A d \in DeliveryIds :
        Terminal(deliveries[d]) =>
            /\ deliveries'[d] = deliveries[d]
            /\ trace'[d] = trace[d]]_vars

\* a row delivered at its first attempt, and the engine went on working after
C4_Witness ==
    /\ Len(deliveries) >= 2
    /\ deliveries[1].status = "delivered" /\ deliveries[1].attempts = 1
    /\ Len(trace[2]) >= 3

\* the rows of the snapshot of call cl that subscribe to its event type
SnapshotSelected(cl) ==
    {cl.rows[k].id : k \in {m \in 1..Len(cl.rows) :
        \E n \in 1..Len(JSONparseArray(cl.rows[m].events)) :
            JSONparseArray(cl.rows[m].events)[n] = cl.eventType}}

\* the webhooks of table tbl that deliver(eventType, _, userId) has to serve
Eligible(tbl, userId, eventType) ==
    {tbl[k].id : k \in {m \in 1..Len(tbl) :
        /\ tbl[m].user_id = userId
        /\ tbl[m].active = 1
        /\ \E n \in 1..Len(JSONparseArray(tbl[m].events)) :
                JSONparseArray(tbl[m].events)[n] = eventType}}

\* the webhooks call c has inserted a delivery row for
Served(c) == {deliveries[calls[c].made[k]].webhook_id : k \in 1..Len(calls[c].made)}

\* C5: the delivery loops of one call are independent: while one selected
\* webhook is in a backoff wait, every other selected webhook of the call has
\* its delivery row and its first POST already.
C5_IndependentLoops ==
    \A c \in CallIds :
        calls[c].pc = "wait" => SnapshotSelected(calls[c]) \subseteq Served(c)

\* C6: deliver serves exactly the webhooks that, when it is called, are owned
\* by userId, active and subscribed to eventType: it snapshots those, inserts
\* rows (each with a first POST to that webhook's url) for no other webhook,
\* has served all of them when it returns, and returns normally.
C6_ServesExactlyEligible ==
    /\ [][\A c \in CallIds :
            calls[c].pc = "idle" /\ calls'[c].pc # "idle" =>
                SnapshotSelected(calls'[c])
                    = Eligible(webhooks, calls'[c].userId, calls'[c].eventType)]_vars
    /\ [](\A c \in CallIds :
            /\ Served(c) \subseteq SnapshotSelected(calls[c])
            /\ Len(calls[c].made) = Cardinality(Served(c))
            /\ \A k \in 1..Len(calls[c].made) :
                    /\ deliveries[calls[c].made[k]].event_type = calls[c].eventType
                    /\ trace[calls[c].made[k]][1].type = "post"
            /\ calls[c].pc = "done" =>
                    /\ Served(c) = SnapshotSelected(calls[c])
                    /\ calls[c].result = "resolved")

\* a finished call that served the second webhook and not the first, which
\* is another user's (and was made before the second, so before the call)
C6_Witness ==
    \E c \in CallIds :
        /\ calls[c].pc = "done"
        /\ Served(c) = {2}
        /\ webhooks[1].id = 1 /\ webhooks[1].user_id # calls[c].userId

\* the type, attempt number and delay of a trace event
Shape(e) == <<e.type, e.n, e.ms>>

\* the one order of events a delivery row can go through
Schedule ==
    << <<"post", 1, 0>>, <<"recorded", 1, 0>>, <<"wait", 2, 1000>>,
       <<"post", 2, 0>>, <<"recorded", 2, 0>>, <<"wait", 3, 5000>>,
       <<"post", 3, 0>>, <<"recorded", 3, 0>> >>

\* C7: the events of a row follow the fixed schedule: POST 1 with no wait
\* before it, its outcome recorded, a 1s wait, POST 2, its outcome recorded, a
\* 5s wait, POST 3, its outcome recorded, and nothing after; the row's
\* attempt count is the number of outcomes recorded.
C7_SequentialBackoff ==
    \A d \in DeliveryIds :
        /\ Len(trace[d]) \in 1..Len(Schedule)
        /\ \A k \in 1..Len(trace[d]) : Shape(trace[d][k]) = Schedule[k]
        /\ deliveries[d].attempts = Len(EventsOf(d, "recorded"))

\* a row that went through the whole schedule
C7_Witness ==
    \E d \in DeliveryIds : Len(trace[d]) = Len(Schedule)

\* HMAC-SHA-256 of message msg under key
HmacSha256(key, msg) == [alg |-> "hmac-sha256", key |-> key, msg |-> msg]

\* the secret webhook row d is for had when its call selected it
SecretAtSelection(d) ==
    LET cl == calls[CallOf(d)]
        k == CHOOSE m \in 1..Len(cl.rows) : cl.rows[m].id = deliveries[d].webhook_id
    IN cl.rows[k].secret

\* C8: every POST of a row carries the payload stored in the row as its body
\* and, as its signature, the HMAC-SHA-256 of that body under the secret the
\* webhook had when the call selected it; so all POSTs of a row agree.
C8_SignatureOverBody ==
    \A d \in DeliveryIds : \A k \in 1..Len(trace[d]) :
        trace[d][k].type = "post" =>
            /\ trace[d][k].body = deliveries[d].payload
            /\ trace[d][k].signature = HmacSha256(SecretAtSelection(d), trace[d][k].body)
            /\ trace[d][k].signature = trace[d][1].signature
            /\ trace[d][k].body = trace[d][1].body

\* a row with three POSTs whose webhook got another secret in the meantime
C8_Witness ==
    \E d \in DeliveryIds :
        /\ Posts(d) = 3
        /\ \E k \in 1..Len(webhooks) :
                /\ webhooks[k].id = deliveries[d].webhook_id
                /\ webhooks[k].secret # SecretAtSelection(d)

\* C9: deliver never rejects; when it has returned, every row it made is
\* terminal, and a row whose endpoint failed throughout shows it as
\* status=failed, attempts=3.
C9_FailuresContained ==
    \A c \in CallIds :
        /\ calls[c].result # "rejected"
        /\ calls[c].pc = "done" =>
            /\ calls[c].result = "resolved"
            /\ \A k \in 1..Len(calls[c].made) :
                LET d == calls[c].made[k] IN
                /\ Terminal(deliveries[d])
                /\ deliveries[d].status = "failed" <=>
                        Outcomes(d) = <<"fail", "fail", "fail">>

\* a call that returned normally after a row failed on transport errors only
C9_Witness ==
    \E c \in CallIds :
        /\ calls[c].pc = "done" /\ calls[c].result = "resolved"
        /\ \E k \in 1..Len(calls[c].made) :
                /\ deliveries[calls[c].made[k]].status = "failed"
                /\ deliveries[calls[c].made[k]].response_code = NULL

(* ================ properties of the notification service ============== *)
\* the field of NotificationPreferences that holds the channels of a type
PreferenceKey(type) ==
    CASE type = "task_assigned" -> "taskAssigned"
      [] type = "task_status_changed" -> "taskStatusChanged"
      [] type = "comment_added" -> "commentAdded"
      [] type = "project_invited" -> "projectInvited"
      [] type = "task_due_soon" -> "taskDueSoon"

\* the channels a user's preferences give a notification type
PreferredChannels(userId, type) == get(preferences, userId)[PreferenceKey(type)]

\* C10: a send without an explicit channel list returns (and has stored) one
\* record per channel of the recipient's preference for the type of the
\* notification: the stored one, or the default when there is no stored row.
C10_ChannelsFromPreferences ==
    (response.op = "send" /\ "channels" \notin response.req.has) =>
        [k \in 1..Len(response.result) |-> response.result[k].channel]
            = PreferredChannels(response.req.userId, response.req.type)

\* a step in which send returned `response'`
SendReturned == response' # response /\ response'.op = "send"

\* the channels of the records in a list of records
ChannelsIn(records) == [k \in 1..Len(records) |-> records[k].channel]

\* C11: a send with an explicit non-empty channel list returns, and appends
\* to the table, exactly one record per listed channel, in the order of the
\* list, each owned by the recipient and unread, whatever the recipient's
\* stored or default preference is.
C11_ExplicitChannelsVerbatim ==
    /\ [](response.op = "send" /\ "channels" \in response.req.has
            /\ Len(response.req.channels) > 0 =>
                /\ ChannelsIn(response.result) = response.req.channels
                /\ \A k \in 1..Len(response.result) :
                        /\ response.result[k].userId = response.req.userId
                        /\ response.result[k].read = FALSE)
    /\ [][SendReturned /\ "channels" \in response'.req.has
            /\ Len(response'.req.channels) > 0 =>
                /\ Len(notifications') = Len(notifications) + Len(response'.req.channels)
                /\ SubSeq(notifications', 1, Len(notifications)) = notifications
                /\ \A k \in 1..Len(response'.req.channels) :
                        LET row == notifications'[Len(notifications) + k] IN
                        /\ row.channel = response'.req.channels[k]
                        /\ row.user_id = response'.req.userId
                        /\ row.read = 0
                        /\ response'.result[k].id = row.id]_vars

\* in_app and email sent to a user whose stored preference for the type is
\* webhook only
C11_Witness ==
    /\ response.op = "send" /\ "channels" \in response.req.has
    /\ response.req.channels = <<"in_app", "email">>
    /\ response.req.type = "project_invited"
    /\ Len(response.result) = 2
    /\ preferences[response.req.userId] # NULL
    /\ PreferredChannels(response.req.userId, "project_invited") = <<"webhook">>

\* C12: a send whose channels include webhook starts the delivery pass for
\* the recipient (a delivery row appears when the recipient has an active
\* webhook subscribed to the type), and send never returns a record with
\* channel=webhook.
C12_WebhookChannelTriggersDelivery ==
    /\ [](response.op = "send" =>
            \A k \in 1..Len(response.result) : response.result[k].channel # "webhook")
    /\ [][SendReturned /\ includes(channelsOf(response'.req), "webhook")
            /\ Eligible(webhooks, response'.req.userId, response'.req.type) # {} =>
                Len(deliveries') > Len(deliveries)]_vars

\* C13: a send whose channels include email appends exactly one SentEmail
\* row, any other send appends none.
C13_EmailSinkInvoked ==
    [][SendReturned =>
        Len(sent_emails') = Len(sent_emails)
            + (IF includes(channelsOf(response'.req), "email") THEN 1 ELSE 0)]_vars

\* C14: when the record of one channel of a send cannot be created, the
\* records of all its other channels, before and after it, are created.
C14_ChannelFailuresIsolated ==
    [][response' # response /\ response'.op = "sendThrows" =>
        LET channels == channelsOf(response'.req) IN
        /\ Len(notifications') = Len(notifications) + Len(channels) - 1
        /\ \A j \in 1..Len(channels) : j # response'.failedAt =>
                \E k \in (Len(notifications) + 1)..Len(notifications') :
                    notifications'[k].channel = channels[j]]_vars

\* C15: send is never held up by the engine: whatever the deliver invocations
\* are doing (awaiting a fetch, in a backoff wait), a send the table has room
\* for can run at once, and it returns all its records in that same step
\* without touching the engine.
C15_SendNeverWaits ==
    /\ [](\A req \in DispatchSendInputs :
            Len(notifications) + Len(channelsOf(req)) <= MaxNotifications =>
                ENABLED send(req, MaxNotifications))
    /\ [][SendReturned =>
            /\ Len(response'.result) = Len(channelsOf(response'.req))
            /\ Len(notifications') = Len(notifications) + Len(response'.result)
            /\ UNCHANGED engineVars]_vars

\* a send that returned while a delivery for the same user and event was in
\* its backoff wait after a failed attempt, and that delivery still waits
C15_Witness ==
    /\ response.op = "send"
    /\ \E c \in CallIds :
        /\ response.callsAt[c] = "wait"
        /\ calls[c].pc = "wait"
        /\ calls[c].userId = response.req.userId
        /\ calls[c].eventType = response.req.type
        /\ deliveries[calls[c].deliveryId].status = "pending"
        /\ deliveries[calls[c].deliveryId].attempts >= 1

\* the hard-coded defaults, as the specification lists them
SpecDefaults(userId) ==
    [userId |-> userId,
     taskAssigned |-> <<"in_app">>,
     taskStatusChanged |-> <<"in_app">>,
     commentAdded |-> <<"in_app">>,
     projectInvited |-> <<"in_app", "email">>,
     taskDueSoon |-> <<"in_app", "email">>]

\* a step in which GET /preferences answered with `response'`
GetReturned == response' # response /\ response'.op = "getPreferences"

\* C16: for a user with no stored row, reading the preferences does not
\* throw and returns exactly the defaults.
C16_DefaultsWhenNoRow ==
    /\ [](\A u \in Users : preferences[u] = NULL =>
            /\ ~getThrows(preferences, u)
            /\ get(preferences, u) = SpecDefaults(u))
    /\ [][GetReturned /\ preferences[response'.userId] = NULL =>
            /\ response'.threw = FALSE
            /\ response'.result = Some(SpecDefaults(response'.userId))]_vars

\* the defaults read for a user without a row while the other user has one
C16_Witness ==
    /\ response.op = "getPreferences"
    /\ preferences[response.userId] = NULL
    /\ response.result = Some(SpecDefaults(response.userId))
    /\ \E u \in Users : preferences[u] # NULL

\* the column that stores a field of NotificationPreferences
ColumnOf(key) ==
    CASE key = "taskAssigned" -> "task_assigned"
      [] key = "taskStatusChanged" -> "task_status_changed"
      [] key = "commentAdded" -> "comment_added"
      [] key = "projectInvited" -> "project_invited"
      [] key = "taskDueSoon" -> "task_due_soon"

\* what a read of a stored row has to return for a field: the stored list,
\* or the default of the field when the stored text does not parse
FieldOrDefault(row, key) ==
    IF JSONparses(row[ColumnOf(key)]) THEN JSONparseArray(row[ColumnOf(key)])
    ELSE SpecDefaults(row.user_id)[key]

\* C17: reading a stored row never throws; a field whose stored text does not
\* parse reads as its default and every other field as its stored value.
C17_CorruptFieldFallsBack ==
    [][GetReturned /\ preferences[response'.userId] # NULL =>
        /\ response'.threw = FALSE
        /\ response'.result # NULL
        /\ \A key \in PreferenceKeys :
                response'.result[1][key]
                    = FieldOrDefault(preferences[response'.userId][1], key)]_vars

PutReturned ==
    response' # response /\ response'.op = "putPreferences" /\ ~response'.threw

\* C19: an update that returns leaves every omitted field at its prior value
\* (stored, or default without a row), sets every supplied field to the
\* supplied list, the empty list too, touches no other user, and the value
\* read back afterwards is the value it returned.
C19_PartialUpdate ==
    [][PutReturned =>
        LET u == response'.userId
            req == response'.req
        IN /\ ~getThrows(preferences', u)
           /\ \A key \in PreferenceKeys :
                get(preferences', u)[key]
                    = IF key \in req.has THEN req[key] ELSE get(preferences, u)[key]
           /\ response'.result = Some(get(preferences', u))
           /\ \A v \in Users \ {u} : preferences'[v] = preferences[v]]_vars

\* the empty list stored for one field of a row that keeps the webhook-only
\* list stored earlier for another
C19_Witness ==
    /\ response.op = "putPreferences" /\ ~response.threw
    /\ response.req.has = {"taskAssigned"} /\ response.req.taskAssigned = <<>>
    /\ ~getThrows(preferences, response.userId)
    /\ get(preferences, response.userId).taskAssigned = <<>>
    /\ get(preferences, response.userId).projectInvited = <<"webhook">>
    /\ get(preferences, response.userId).taskDueSoon = <<"in_app", "email">>

\* the page a query asks for, when it asks for one that exists
AskedPage(query) ==
    IF query.page # NULL /\ query.page[1] >= 1 THEN query.page ELSE NULL

\* the page size a query asks for, when it asks for an admissible one
AskedPageSize(query) ==
    IF query.pageSize # NULL /\ query.pageSize[1] \in 1..100 THEN query.pageSize
    ELSE NULL

\* the number of records of a user
RecordsOf(userId) ==
    Cardinality({k \in 1..Len(notifications) : notifications[k].user_id = userId})

\* C20: for a user with T records, effective page p >= 1 and effective page
\* size s (the page and the size asked for, when the query asks for a page
\* >= 1 and a size in [1,100]), list returns total = T,
\* min(s, max(0, T - (p-1)*s)) items, all of them the user's, and
\* hasMore = (p*s < T).
C20_Pagination ==
    response.op = "list" =>
        LET T == RecordsOf(response.userId)
            p == response.result.page
            s == response.result.pageSize
            rest == IF T - (p - 1) * s > 0 THEN T - (p - 1) * s ELSE 0
        IN /\ AskedPage(response.query) # NULL => p = AskedPage(response.query)[1]
           /\ AskedPageSize(response.query) # NULL =>
                    s = AskedPageSize(response.query)[1]
           /\ p >= 1
           /\ response.result.total = T
           /\ Len(response.result.items) = (IF s < rest THEN s ELSE rest)
           /\ response.result.hasMore = (p * s < T)
           /\ \A k \in 1..Len(response.result.items) :
                response.result.items[k].userId = response.userId

\* 5 records, page size 2, page 3: one item and no more
C20_Witness ==
    /\ response.op = "list"
    /\ response.query = [page |-> Some(3), pageSize |-> Some(2)]
    /\ response.result.total = 5
    /\ Len(response.result.items) = 1
    /\ response.result.hasMore = FALSE

\* C21: whatever page and page size the caller supplies (absent, 0,
\* negative, above 100), list reports a page >= 1, which is 1 when none is
\* supplied, and a page size in [1,100], which is 20 when none is supplied;
\* a supplied page >= 1 and a supplied size in [1,100] are reported as they
\* are, and the reported values are the ones the items were cut by.
C21_EffectivePaging ==
    response.op = "list" =>
        LET query == response.query
            result == response.result
            T == RecordsOf(response.userId)
            from == (result.page - 1) * result.pageSize
        IN /\ result.page >= 1
           /\ result.pageSize \in 1..100
           /\ query.page = NULL => result.page = 1
           /\ query.pageSize = NULL => result.pageSize = 20
           /\ query.page # NULL /\ query.page[1] >= 1 => result.page = query.page[1]
           /\ query.pageSize # NULL /\ query.pageSize[1] \in 1..100 =>
                    result.pageSize = query.pageSize[1]
           /\ Len(result.items) <= result.pageSize
           /\ Len(result.items) = (IF T - from < 0 THEN 0
                                   ELSE IF T - from < result.pageSize THEN T - from
                                   ELSE result.pageSize)

\* a listing asked with page -1 and page size 101, of a table that holds
\* records of the user
C21_Witness ==
    /\ response.op = "list"
    /\ response.query = [page |-> Some(-1), pageSize |-> Some(101)]
    /\ response.result.page = 1 /\ response.result.pageSize = 100
    /\ Len(response.result.items) >= 2

\* C22: list returns a user's records newest-first: of two records on a
\* page, the one created by the later send (the greater id) comes first.
C22_NewestFirst ==
    response.op = "list" =>
        \A i, j \in 1..Len(response.result.items) :
            i < j => response.result.items[i].id > response.result.items[j].id

\* the records of a user whose read flag is false, as the API shows them
Unread(tbl, userId) ==
    {k \in 1..Len(tbl) :
        rowToNotification(tbl[k]).userId = userId /\ ~rowToNotification(tbl[k]).read}

\* a call of markAsRead has returned in this step
MarkAsReadReturned == response' # response /\ response'.op = "markAsRead"

\* the record with this id, if there is one (NULL otherwise)
RecordWithId(tbl, notificationId) ==
    IF \E k \in 1..Len(tbl) : tbl[k].id = notificationId
    THEN Some(rowToNotification(tbl[CHOOSE k \in 1..Len(tbl) : tbl[k].id = notificationId]))
    ELSE NULL

\* C23: markAsRead with the id of a record of another user, or with an id
\* that does not exist, returns null and leaves every read flag unchanged.
C23_MarkAsReadForeign ==
    [][MarkAsReadReturned =>
        LET record == RecordWithId(notifications, response'.notificationId)
        IN (record = NULL \/ record[1].userId # response'.userId) =>
                /\ response'.result = NULL
                /\ notifications' = notifications]_vars

\* markAsRead on an unread record of the other user has returned null
C23_Witness ==
    /\ response.op = "markAsRead" /\ response.result = NULL
    /\ \E k \in 1..Len(notifications) :
            /\ notifications[k].id = response.notificationId
            /\ notifications[k].user_id # response.userId
            /\ notifications[k].read = 0

\* C24: markAsRead by the owner of the record sets its read flag and returns
\* the record with read = true; no other field of the record and no other
\* record changes; on a record already read it changes nothing and returns
\* the same; the owner's unread count goes down by one if the record was
\* unread and stays otherwise.
C24_MarkAsReadOwn ==
    [][MarkAsReadReturned =>
        LET id == response'.notificationId
            userId == response'.userId
            record == RecordWithId(notifications, id)
        IN (record # NULL /\ record[1].userId = userId) =>
                /\ response'.result = Some([record[1] EXCEPT !.read = TRUE])
                /\ RecordWithId(notifications', id) = response'.result
                /\ Len(notifications') = Len(notifications)
                /\ \A k \in 1..Len(notifications) :
                        notifications[k].id # id => notifications'[k] = notifications[k]
                /\ record[1].read => notifications' = notifications
                /\ Cardinality(Unread(notifications', userId)) =
                        Cardinality(Unread(notifications, userId))
                            - (IF record[1].read THEN 0 ELSE 1)]_vars

\* markAsRead by the owner has returned the record, while another record of
\* the owner is still unread
C24_Witness ==
    /\ response.op = "markAsRead" /\ response.result # NULL
    /\ response.result[1].userId = response.userId
    /\ response.result[1].read
    /\ \E k \in 1..Len(notifications) :
            /\ notifications[k].id # response.notificationId
            /\ notifications[k].user_id = response.userId
            /\ notifications[k].read = 0

\* a call of markAllAsRead has returned in this step
MarkAllAsReadReturned == response' # response /\ response'.op = "markAllAsRead"

\* C25: markAllAsRead returns the number of the user's records that were
\* unread before the call (0 when there were none), afterwards the user's
\* unread count is 0, and the records of other users are as they were.
C25_MarkAllAsRead ==
    [][MarkAllAsReadReturned =>
        LET userId == response'.userId
        IN /\ response'.result = Cardinality(Unread(notifications, userId))
           /\ unreadCount(notifications', userId) = 0
           /\ Unread(notifications', userId) = {}
           /\ Len(notifications') = Len(notifications)
           /\ \A k \in 1..Len(notifications) :
                notifications[k].user_id # userId => notifications'[k] = notifications[k]]_vars

\* markAllAsRead has returned 1 for a user with two records, one of them
\* read before, while a record of the other user is unread
C25_Witness ==
    /\ response.op = "markAllAsRead" /\ response.result = 1
    /\ RecordsOf(response.userId) = 2
    /\ \E k \in 1..Len(notifications) :
            notifications[k].user_id # response.userId /\ notifications[k].read = 0

\* C26: the unread count of a user is the number of the user's records whose
\* read flag is false: never negative and never more than the total that
\* list reports for the user.
C26_UnreadCount ==
    response.op = "getUnreadCount" =>
        /\ response.result = Cardinality(Unread(notifications, response.userId))
        /\ response.result >= 0
        /\ response.result <= RecordsOf(response.userId)

\* the unread count of a user is 1: of the user's two records one is read,
\* and the other user has an unread record
C26_Witness ==
    /\ response.op = "getUnreadCount" /\ response.result = 1
    /\ RecordsOf(response.userId) = 2
    /\ \E k \in 1..Len(notifications) :
            notifications[k].user_id # response.userId /\ notifications[k].read = 0

\* a call of update has returned in this step
UpdateReturned == updates' # updates /\ response'.op = "update"

\* a call of getById or of delete has returned in this step
LookupReturned == response' # response /\ response'.op \in {"getById", "delete"}

\* the position of the webhook with this id, whoever owns it (0 if none)
Position(tbl, webhookId) ==
    IF \E k \in 1..Len(tbl) : tbl[k].id = webhookId
    THEN CHOOSE k \in 1..Len(tbl) : tbl[k].id = webhookId
    ELSE 0

\* C27: for the id of a webhook owned by another user, getById returns null,
\* update returns null and delete returns false, as they do for an id that
\* does not exist, and the table of webhooks is unchanged.
C27_ForeignWebhook ==
    [][UpdateReturned \/ LookupReturned =>
        LET k == Position(webhooks, response'.webhookId)
        IN (k = 0 \/ webhooks[k].user_id # response'.userId) =>
                /\ webhooks' = webhooks
                /\ response'.op \in {"getById", "update"} => response'.result = NULL
                /\ response'.op = "delete" =>
                        ~response'.deleted /\ ~response'.threw]_vars

\* update with a field to write has returned null for a webhook that is in
\* the table, owned by the other user
C27_Witness ==
    /\ response.op = "update" /\ response.result = NULL
    /\ response.req.has # {}
    /\ Position(webhooks, response.webhookId) # 0
    /\ webhooks[Position(webhooks, response.webhookId)].user_id # response.userId

\* a call of getDeliveries has returned in this step
GetDeliveriesReturned == response' # response /\ response'.op = "getDeliveries"

\* C28: getDeliveries returns the delivery rows of the webhook, all of them,
\* pending ones included, if the webhook is owned by the caller, and the
\* empty list, never an error, if it is not or does not exist.
C28_DeliveriesOfOwner ==
    [][GetDeliveriesReturned =>
        LET id == response'.webhookId
            k == Position(webhooks, id)
            rows == {d \in 1..Len(deliveries) : deliveries[d].webhook_id = id}
            result == response'.result
        IN IF k # 0 /\ webhooks[k].user_id = response'.userId
           THEN /\ Len(result) = Cardinality(rows)
                /\ {result[m].id : m \in 1..Len(result)} = {deliveries[d].id : d \in rows}
                /\ \A m \in 1..Len(result) :
                        /\ result[m].webhookId = id
                        /\ result[m].status = deliveries[result[m].id].status
                        /\ result[m].attempts = deliveries[result[m].id].attempts
           ELSE result = <<>>]_vars

\* getDeliveries by the owner has returned a pending row
C28_Witness ==
    /\ response.op = "getDeliveries"
    /\ Len(response.result) = 1
    /\ response.result[1].status = "pending"

\* what the owner sees of a webhook after an update: the fields present in
\* the request take its values, the others stay
Updated(webhook, req) ==
    [id |-> webhook.id, userId |-> webhook.userId,
     url |-> IF "url" \in req.has THEN req.url ELSE webhook.url,
     secret |-> IF "secret" \in req.has THEN req.secret ELSE webhook.secret,
     events |-> IF "events" \in req.has THEN req.events ELSE webhook.events,
     active |-> IF "active" \in req.has THEN req.active ELSE webhook.active]

\* C29: update by the owner changes exactly the fields present in the
\* request, preserves the others, changes no other webhook and returns the
\* webhook as it then is; with no field present it changes nothing and
\* returns the current webhook.
C29_UpdateByOwner ==
    [][UpdateReturned =>
        LET k == Position(webhooks, response'.webhookId)
            req == response'.req
        IN (k # 0 /\ webhooks[k].user_id = response'.userId) =>
                /\ Len(webhooks') = Len(webhooks)
                /\ rowToWebhook(webhooks'[k]) = Updated(rowToWebhook(webhooks[k]), req)
                /\ \A m \in 1..Len(webhooks) : m # k => webhooks'[m] = webhooks[m]
                /\ response'.result = Some(rowToWebhook(webhooks'[k]))
                /\ req.has = {} =>
                        /\ webhooks' = webhooks
                        /\ response'.result = Some(rowToWebhook(webhooks[k]))]_vars

\* update by the owner has written url and events of one of two webhooks
C29_Witness ==
    /\ response.op = "update" /\ response.result # NULL
    /\ response.req.has = {"url", "events"}
    /\ response.result[1].url = "https://b.example/hook"
    /\ response.result[1].secret = "s1"
    /\ Len(webhooks) = 2

\* a call of delete has returned or thrown in this step
DeleteReturned == response' # response /\ response'.op = "delete"

\* C30: delete of a webhook the caller owns returns true, and afterwards
\* getById and list no longer return the webhook, whatever delivery rows the
\* webhook has.
C30_DeleteOwned ==
    [][DeleteReturned =>
        LET id == response'.webhookId
            userId == response'.userId
            k == Position(webhooks, id)
        IN (k # 0 /\ webhooks[k].user_id = userId) =>
                /\ ~response'.threw
                /\ response'.deleted
                /\ getByIdResult(webhooks', id, userId) = NULL
                /\ \A ties \in TieOrders :
                        \A m \in 1..Len(webhookListResult(webhooks', userId, ties)) :
                            webhookListResult(webhooks', userId, ties)[m].id # id]_vars

\* a request was turned down in this step
Rejected(route) ==
    response' # response /\ response'.op = "rejected" /\ response'.route = route

\* what a webhook creation request must not be: an empty event list, an
\* event outside the five types, a target that is no URL
BadCreation(body) ==
    \/ body.events = <<>>
    \/ \E k \in 1..Len(body.events) : body.events[k] \notin NotificationTypes
    \/ ~URLparses(body.url)

\* C31: a webhook creation request with an empty event list, an unknown
\* event or a target that is not a URL is rejected with a validation error
\* and persists nothing: every row that POST /webhooks adds comes from a
\* request with none of these, and a rejected request leaves the registry
\* as it was.
C31_CreationValidated ==
    [][/\ Rejected("POST /webhooks") =>
            /\ webhooks' = webhooks /\ webhookIds' = webhookIds
            /\ authMiddleware(response'.identity) =>
                    /\ response'.error = "ValidationError"
                    /\ BadCreation(response'.body) \/ response'.body.secret = ""
       /\ webhookIds' # webhookIds =>
            /\ Len(webhooks') = Len(webhooks) + 1
            /\ ~BadCreation(rowToWebhook(webhooks'[Len(webhooks')]))]_vars

\* a creation request with an empty event list was rejected with a
\* validation error while the registry holds a webhook
C31_Witness ==
    /\ response.op = "rejected" /\ response.route = "POST /webhooks"
    /\ response.error = "ValidationError"
    /\ response.body.events = <<>> /\ URLparses(response.body.url)
    /\ response.body.secret # ""
    /\ Len(webhooks) = 1

\* what a send request has to be
GoodSend(req) ==
    /\ req.userId # "" /\ req.title # "" /\ req.body # ""
    /\ req.type \in NotificationTypes
    /\ "channels" \in req.has =>
            \A k \in 1..Len(req.channels) : req.channels[k] \in Channels

\* what a preferences update has to be
GoodPreferences(req) ==
    /\ req.has \subseteq PreferenceKeys
    /\ req.nonList = {}
    /\ \A key \in req.has : \A k \in 1..Len(req[key]) : req[key][k] \in Channels

Anonymous(identity) == identity = NULL \/ identity = Some("")

\* a request that carries the service credential, in one of its two headers
HasServiceCredential(credentials) ==
    \/ credentials.serviceToken = Some(SERVICE_TOKEN)
    \/ credentials.authorization = Some(<<"Bearer ", SERVICE_TOKEN>>)

\* the request of this step was refused and storage is as it was
TurnedAway ==
    /\ response'.op = "rejected"
    /\ response'.error \in {"UNAUTHORIZED", "FORBIDDEN"}
    /\ UNCHANGED <<notifications, preferences, sent_emails, webhooks, webhookIds,
                   deliveries>>

\* C33: a send request without the service credential, and a request on a
\* user-scoped route without an end-user identity, is rejected, and leaves
\* the records, the preferences, the webhooks and the delivery rows as they
\* were: a step either is such a rejection, or is the step of no request
\* without identity and of no send request without the credential.
C33_RejectedBeforeStorage ==
    [][\/ TurnedAway
       \/ /\ \A identity \in Identities :
                Anonymous(identity) => ~userRoutes(identity)
          /\ \A credentials \in Credentials :
                ~HasServiceCredential(credentials) => ~serviceRoutes(credentials)]_vars

\* a deletion without identity was refused, with a record, a preference row
\* and a webhook in storage
C33_Witness ==
    /\ response.op = "rejected" /\ response.route = "DELETE /webhooks/:id"
    /\ response.error = "UNAUTHORIZED" /\ response.identity = NULL
    /\ Len(notifications) >= 1
    /\ preferences["u1"] # NULL
    /\ \E k \in 1..Len(webhooks) : webhooks[k].id = response.body.id


\* the attempt of row d whose outcome this step records, 0 if it records none
AttemptCompleted(d) ==
    IF d <= Len(trace) /\ Len(trace'[d]) > Len(trace[d])
          /\ trace'[d][Len(trace[d]) + 1].type = "recorded"
    THEN trace'[d][Len(trace[d]) + 1].n
    ELSE 0

\* C34: the delivery row is a running ledger.  A step inserts at most one
\* row, and the row it inserts is pending with attempts=0, no last-attempt
\* timestamp and its first POST just issued; a step that issues a retry POST
\* inserts no row; the step that records the outcome of the k-th attempt of a
\* row leaves it with attempts=k and a last-attempt timestamp; and a row has
\* a timestamp exactly when an attempt of it has completed.
C34_RunningLedger ==
    /\ [][/\ Len(deliveries') \in {Len(deliveries), Len(deliveries) + 1}
          /\ Len(deliveries') = Len(deliveries) + 1 =>
                LET row == deliveries'[Len(deliveries')] IN
                /\ row.status = "pending" /\ row.attempts = 0
                /\ row.last_attempt_at = NULL /\ row.response_code = NULL
                /\ Len(trace'[row.id]) = 1
                /\ trace'[row.id][1].type = "post" /\ trace'[row.id][1].n = 1
                /\ \E c \in CallIds :
                        /\ calls'[c].made = Append(calls[c].made, row.id)
                        /\ \A k \in 1..Len(calls[c].made) :
                                deliveries[calls[c].made[k]].webhook_id # row.webhook_id
          /\ \A d \in DeliveryIds :
                /\ (Len(trace'[d]) > Len(trace[d])
                        /\ trace'[d][Len(trace[d]) + 1].type = "post") =>
                            Len(deliveries') = Len(deliveries)
                /\ AttemptCompleted(d) # 0 =>
                        /\ deliveries'[d].attempts = AttemptCompleted(d)
                        /\ deliveries'[d].last_attempt_at # NULL
                /\ AttemptCompleted(d) = 0 => deliveries'[d] = deliveries[d]]_vars
    /\ [](/\ Len(trace) = Len(deliveries)
          /\ \A d \in DeliveryIds :
                /\ deliveries[d].id = d
                /\ deliveries[d].last_attempt_at # NULL <=> deliveries[d].attempts >= 1)

\* a row whose three attempts all threw, and the next row of the call just
\* inserted, its first POST in flight
C34_Witness ==
    \E d, e \in DeliveryIds :
        /\ deliveries[d].attempts = 3 /\ deliveries[d].response_code = NULL
        /\ deliveries[d].last_attempt_at # NULL
        /\ CallOf(e) = CallOf(d)
        /\ deliveries[e].attempts = 0 /\ Posts(e) = 1


\* what a delivery running alone ends with, given what the endpoint did to
\* its attempts: one attempt per outcome, delivered by a 2xx, failed by the
\* third failure, pending in between
AloneRow(outcomes) ==
    [attempts |-> Len(outcomes),
     status |-> IF Len(outcomes) > 0 /\ outcomes[Len(outcomes)] = "2xx" THEN "delivered"
                ELSE IF Len(outcomes) >= maxAttempts THEN "failed"
                ELSE "pending"]

\* the sequences of outcomes a delivery running alone can see: at most three,
\* none after a 2xx
AloneOutcomes(outcomes) ==
    /\ Len(outcomes) <= maxAttempts
    /\ \A k \in 1..(Len(outcomes) - 1) : outcomes[k] = "fail"

\* C35: delivery sequences of two calls that interleave never conflict: a
\* step of one call changes no delivery row but the one with the delivery id
\* that call is working on, and in every state each row's status and attempts
\* are what its delivery would have running alone against the outcomes its
\* own attempts met.
C35_ConcurrentDeliveries ==
    /\ [][\A d \in DeliveryIds :
            deliveries'[d] # deliveries[d] =>
                \E c \in ConcurrentCalls :
                    /\ calls'[c] # calls[c]
                    /\ calls[c].deliveryId = d
                    /\ \A b \in ConcurrentCalls \ {c} : calls'[b] = calls[b]]_vars
    /\ [](\A d \in DeliveryIds :
            /\ AloneOutcomes(Outcomes(d))
            /\ deliveries[d].attempts = AloneRow(Outcomes(d)).attempts
            /\ deliveries[d].status = AloneRow(Outcomes(d)).status)

\* both calls in a backoff wait at once, for webhooks of different users, the
\* first after two failed attempts and the second after one
C35_Witness ==
    /\ DOMAIN calls = ConcurrentCalls
    /\ calls[1].pc = "wait" /\ calls[2].pc = "wait"
    /\ calls[1].userId # calls[2].userId
    /\ deliveries[calls[1].deliveryId].attempts = 2
    /\ deliveries[calls[2].deliveryId].attempts = 1


\* what a persisted webhook subscribes to has to be: a non-empty list of
\* notification types
ValidEvents(webhook) ==
    /\ webhook.events # <<>>
    /\ \A k \in 1..Len(webhook.events) : webhook.events[k] \in NotificationTypes

\* C36: after any sequence of POST /webhooks and PATCH /webhooks/:id
\* requests, every persisted webhook subscribes to a non-empty list of
\* notification types; a newly created webhook is active, and the active
\* flag of a webhook changes only in the step of an update by its owner that
\* carries the flag, to the value carried.
C36_PersistedWebhooksValid ==
    /\ [](\A k \in 1..Len(webhooks) : ValidEvents(rowToWebhook(webhooks[k])))
    /\ [][/\ Len(webhooks') >= Len(webhooks)
          /\ \A k \in 1..Len(webhooks') :
                IF k > Len(webhooks)
                THEN rowToWebhook(webhooks'[k]).active
                ELSE webhooks'[k].active # webhooks[k].active =>
                        /\ UpdateReturned
                        /\ response'.webhookId = webhooks[k].id
                        /\ response'.userId = webhooks[k].user_id
                        /\ "active" \in response'.req.has
                        /\ rowToWebhook(webhooks'[k]).active = response'.req.active]_vars

\* an update replaced the events of the first webhook, after which both
\* webhooks are still active
C36_Witness ==
    /\ response.op = "update" /\ response.req.has = {"events"}
    /\ Len(webhooks) = 2
    /\ rowToWebhook(webhooks[1]).events = <<"comment_added">>
    /\ rowToWebhook(webhooks[1]).active /\ rowToWebhook(webhooks[2]).active


\* C37: notification records are never deleted and are changed only by the
\* mark-read operations: in every step the records there stay at their
\* place, each with its id, recipient, type, channel, title, body, metadata
\* and creation time; a read flag that changes goes from 0 to 1, in a step of
\* markAsRead or markAllAsRead by the recipient; new records come unread and
\* after the old ones, in a step of send.
C37_RecordsOnlyGetRead ==
    [][/\ Len(notifications') >= Len(notifications)
       /\ \A k \in 1..Len(notifications) :
            /\ [notifications'[k] EXCEPT !.read = 0] = [notifications[k] EXCEPT !.read = 0]
            /\ notifications'[k].read >= notifications[k].read
            /\ notifications'[k].read # notifications[k].read =>
                    /\ response'.op \in {"markAsRead", "markAllAsRead"}
                    /\ response'.userId = notifications[k].user_id
       /\ \A k \in (Len(notifications) + 1)..Len(notifications') :
            /\ notifications'[k].read = 0
            /\ response'.op = "send"]_vars

\* three records of two users, all still there and all read, after a
\* markAsRead that found its record
C37_Witness ==
    /\ Len(notifications) = 3
    /\ \A k \in 1..Len(notifications) : notifications[k].read = 1
    /\ response.op = "markAsRead" /\ response.result # NULL
    /\ \E k, m \in 1..Len(notifications) :
            notifications[k].user_id # notifications[m].user_id


\* the user the operation of this step was called for
Actor == IF response'.op = "send" THEN response'.req.userId ELSE response'.userId

\* list(userId, query) reports after this step the items and the total it
\* reported before: the rows selected for the user are as many, and the rows
\* of the page, which the items are made of, are the same
SameListing(userId, query, ties) ==
    \A old \in {selectNotifications(userId, ties)},
       new \in {selectNotifications(userId, ties)'} :
        /\ Len(new) = Len(old)
        /\ limitOffset(new, pageSizeOf(query), (pageOf(query) - 1) * pageSizeOf(query))
            = limitOffset(old, pageSizeOf(query), (pageOf(query) - 1) * pageSizeOf(query))

\* C38: operations for one user never affect another user's notification
\* state: a step of send, markAsRead, markAllAsRead (or of a read) for user A
\* leaves, for every other user B, the items and total of every listing of
\* B, the unread count of B and every record of B as they were; and a
\* listing returned for B holds records of B only, all of them counted in
\* its total.
C38_UsersIsolated ==
    [][/\ \A userId \in Users \ {Actor} :
            /\ \A query \in IsolationQueries, ties \in TieOrders :
                    SameListing(userId, query, ties)
            /\ unreadCount(notifications', userId) = unreadCount(notifications, userId)
            /\ \A k \in 1..Len(notifications) :
                    notifications[k].user_id = userId =>
                        notifications'[k] = notifications[k]
       /\ response'.op = "list" =>
            /\ \A k \in 1..Len(response'.result.items) :
                    response'.result.items[k].userId = response'.userId
            /\ response'.result.total =
                    Cardinality({k \in 1..Len(notifications) :
                                    notifications[k].user_id = response'.userId})]_vars

\* markAllAsRead for u1 has changed a record, while u2 has a record read and
\* a record unread
C38_Witness ==
    /\ response.op = "markAllAsRead" /\ response.userId = "u1"
    /\ response.result >= 1
    /\ \E k, m \in 1..Len(notifications) :
            /\ notifications[k].user_id = "u2" /\ notifications[k].read = 1
            /\ notifications[m].user_id = "u2" /\ notifications[m].read = 0


\* the webhook of row d as its call read it when deliver selected it
WebhookAtSelection(d) ==
    LET cl == calls[CallOf(d)]
    IN rowToWebhook(cl.rows[CHOOSE m \in 1..Len(cl.rows) :
                                cl.rows[m].id = deliveries[d].webhook_id])

\* the webhook of row d as the registry has it now
WebhookNow(d) ==
    rowToWebhook(webhooks[CHOOSE k \in 1..Len(webhooks) :
                                webhooks[k].id = deliveries[d].webhook_id])

\* C39: an in-flight delivery works on the webhook as deliver read it: every
\* POST of a row goes to the url and is signed with the secret the webhook
\* had at selection, whatever the registry holds since; an update step
\* changes no call, row or POST; a row that is not terminal is the one its
\* call is at (in a fetch or a backoff wait), and the step that ends a
\* backoff wait issues the next POST of the row, whether or not its webhook
\* is still active or subscribed.
C39_DeliveryKeepsSnapshot ==
    /\ [](\A d \in DeliveryIds :
            /\ \A k \in 1..Len(trace[d]) :
                    trace[d][k].type = "post" =>
                        /\ trace[d][k].url = WebhookAtSelection(d).url
                        /\ trace[d][k].signature.key = WebhookAtSelection(d).secret
            /\ ~Terminal(deliveries[d]) =>
                    /\ calls[CallOf(d)].deliveryId = d
                    /\ calls[CallOf(d)].pc \in {"fetch", "wait"}
                    /\ Posts(d) = deliveries[d].attempts
                            + (IF calls[CallOf(d)].pc = "fetch" THEN 1 ELSE 0))
    /\ [][/\ webhooks' # webhooks =>
                calls' = calls /\ deliveries' = deliveries /\ trace' = trace
          /\ \A c \in CallIds :
                (calls[c].pc = "wait" /\ calls'[c] # calls[c]) =>
                    /\ calls'[c].pc = "fetch"
                    /\ Len(trace'[calls[c].deliveryId])
                            = Len(trace[calls[c].deliveryId]) + 1
                    /\ trace'[calls[c].deliveryId][Len(trace'[calls[c].deliveryId])].type
                            = "post"
                    /\ deliveries' = deliveries]_vars

\* a row that got its three POSTs, the third in flight, while the registry
\* holds its webhook with another url, another secret, other events and
\* deactivated
C39_Witness ==
    \E d \in DeliveryIds :
        /\ Posts(d) = 3 /\ deliveries[d].attempts = 2
        /\ WebhookNow(d).url # WebhookAtSelection(d).url
        /\ WebhookNow(d).secret # WebhookAtSelection(d).secret
        /\ WebhookNow(d).events # WebhookAtSelection(d).events
        /\ ~WebhookNow(d).active


\* the webhooks in the registry
RegisteredIds == {webhooks[k].id : k \in 1..Len(webhooks)}

\* C40: in every state reached by deliver, update and delete in any
\* interleaving, the webhook_id of each delivery row is the id of a webhook
\* in the registry, and of one only.
C40_NoOrphanedDelivery ==
    \A d \in DeliveryIds :
        /\ deliveries[d].webhook_id \in RegisteredIds
        /\ Cardinality({k \in 1..Len(webhooks) :
                            webhooks[k].id = deliveries[d].webhook_id}) = 1

\* delete was refused for a webhook that has a delivery row, after the
\* webhook was updated, while the call of deliver that made the row was
\* rejected at its next webhook, deleted under it
C40_Witness ==
    /\ response.op = "delete" /\ response.threw
    /\ updates >= 1
    /\ \E d \in DeliveryIds : deliveries[d].webhook_id = response.webhookId
    /\ \E c \in CallIds : calls[c].result = "rejected"

====
